---- MODULE Spec2Model ----
(***************************************************************************)
(* A model of matrix-puppeteer-line: the RPC transport to the puppeteer    *)
(* script (rpc/rpc.py, rpc/client.py) and the per-conversation             *)
(* reconciliation engine (portal.py, user.py, matrix.py, db/).             *)
(*                                                                         *)
(* The program is single-threaded asyncio: a coroutine runs until it       *)
(* awaits something that suspends it.  Every action below is the code      *)
(* between two such suspension points.                                     *)
(***************************************************************************)
EXTENDS Integers, Sequences, FiniteSets, TLC

(***************************************************************************)
(* Bounds of the transport model.                                          *)
(***************************************************************************)
\* connections the transport may open in one run
MaxConn == 2
\* typed requests callers issue, besides the "register" of each connect()
MaxReq == 1
\* frames of any kind the puppeteer script sends in one run
MaxFrames == 2
\* frames after which the script sends no further broadcast
MaxEventFrames == 3
\* broadcast ids are -1 .. -MaxBid
MaxBid == 3

(***************************************************************************)
(* Bounds of the conversation model.                                       *)
(***************************************************************************)
\* triggers (live events, sync passes, invites) in one run
MaxTasks == 2
\* remote message ids are 1 .. MaxMid
MaxMid == 2

\* login attempts of the user in one run
MaxLogins == 2
\* login events (qr, pin, login_success, login_failure) the remote side sends
MaxLoginEvents == 2
MaxMatrixMsgs == 2

Chats == {"u1"}
GroupChats == {"c1"}
AllChats == Chats \cup GroupChats
GroupMembers == {"p1", "p2", "p3"}
Own == "_OWN_"
MaxReceipts == 3
Counts == 1..Cardinality(GroupMembers)
\* _handle_remote_media is called at most MaxMediaCalls times, for these content keys
MaxMediaCalls == 2
MediaCalls == 1..MaxMediaCalls
\* Puppet.get_by_mid is called at most MaxResolves times
MaxResolves == 2
\* Portal.get_by_chat_id is called at most MaxGets times
MaxGets == 2
MediaKeys == {"k1", "k2"}
Tasks == 1..MaxTasks
Mids == 1..MaxMid
Logins == 1..MaxLogins
LoginKinds == {"qr", "email", "auto"}
LoginEventKinds == {"qr", "pin", "login_success", "login_failure"}

Bids == { 0 - b : b \in 1..MaxBid }
ReqIds == 0..(MaxReq + MaxConn)
ResponseCommands == {"response", "error", "other"}

VARIABLES
    \* ---- RPCClient fields (rpc.py 36-53)
    reader,             \* self._reader is not None
    writer,             \* self._writer is not None
    req_id,             \* self._req_id
    min_broadcast_id,   \* self._min_broadcast_id
    response_waiters,   \* self._response_waiters: id -> state of its future
    command_queue,      \* self._command_queue
    \* ---- tasks and the event loop
    connecting,         \* connect() calls suspended in open_connection
    connCount,          \* connections opened so far
    stream,             \* per connection: "open", or "closed" once the peer sent EOF
    readTask,           \* per connection: its _try_read_loop task
    cmdLoop,            \* per connection: its _command_loop task (0 idle, else the broadcast id it handles)
    evTasks,            \* tasks created for non-sequential broadcasts
    awaiting,           \* request ids whose caller is suspended in `await future`
    \* ---- history
    arrived,            \* frames received so far
    lastFrame,          \* the frame handled last
    lowest,             \* the lowest broadcast id read so far (0: none yet)
    issued,             \* the ids _next_req_id returned, in order
    dispatchCount,      \* broadcast id -> times its handlers were started
    seqStarted          \* arrival numbers of sequential events, in the order their handlers started

VARIABLES
    \* ---- Portal fields (portal.py 57-81), one Portal per chat id
    mxid,               \* Portal.mxid: the room id, 0 for None
    create_room_lock,   \* Portal._create_room_lock: 0 free, else the task holding it
    backfill_lock,      \* Portal.backfill_lock: TRUE while the SimpleLock is locked
    \* ---- storage
    dbMessages,         \* the message table
    \* ---- the platform and the remote side
    sent,               \* per chat and remote id: how many events were sent for it
    createCalls,        \* per chat: calls of main_intent.create_room
    remoteMax,          \* per chat: the remote history holds the messages 1..remoteMax
    \* ---- tasks
    tasks,              \* task -> its trigger and its position in the code
    ntasks,             \* tasks started so far
    \* ---- history
    insertRejected      \* an insert has raised UniqueViolationError (portal.py 396-399)

VARIABLES
    \* ---- the registries of conversations (portal.py 59-60, 805-818)
    by_mxid,            \* Portal.by_mxid: the rooms registered in the by-room index
    portals,            \* the chats that have a conversation record (Portal.by_chat_id, portal table)
    deleted,            \* the chats whose conversation was deleted
    \* ---- messages from the platform (portal.py 137-191)
    remoteSends,        \* send and send_file requests made to the remote side
    notices,            \* "may have failed" notices posted to rooms
    mxMsg,              \* the platform message handle_matrix_message is working on
    \* ---- receipt accounting (portal.py 407-453, db/receipt.py, db/receipt_reaction.py)
    participants,       \* Portal._last_participant_update of each chat
    receipts,           \* the receipt table: rows [mid, chat_id, num_read]
    reactions,          \* the receipt_reaction table and the "Read by" reactions of the rooms
    rct                 \* the receipt handled last, and the native receipts it made

registryVars == <<by_mxid, portals, deleted>>

matrixVars == <<remoteSends, notices, mxMsg>>

receiptVars == <<participants, receipts, reactions, rct>>

VARIABLES
    \* ---- deduplicated media (portal.py 455-478, db/media.py)
    media,              \* the media table: rows [media_id, mxc]
    mcalls,             \* the calls of _handle_remote_media: position, key and result of each
    nmcalls,            \* calls started so far
    uploads             \* calls of intent.upload_media so far

mediaVars == <<media, mcalls, nmcalls, uploads>>

VARIABLES
    \* ---- profiles (puppet.py 66-119, portal.py 532-570)
    profile,            \* one Puppet: name, name_set, avatar_path, avatar_mxc, avatar_set
    icon,               \* one Portal with a room: icon_path, icon_mxc
    shown,              \* what the platform shows: displayname, avatar and room avatar
    \* ---- identities (puppet.py 142-187, db/puppet.py, db/stranger.py)
    puppetDb,           \* the ids that have a row in the puppet table
    by_mid,             \* Puppet.by_mid: id -> the Puppet object cached for it, 0 for none
    resolves,           \* the calls of Puppet.get_by_mid: position, id and result of each
    nresolves,          \* calls started so far; the Puppet object call n makes is object n
    strangers,          \* the stranger table: rows [fake_mid, name, avatar_path, available]
    byProfile           \* the call of Puppet.get_by_profile made last, and how it ended

identityVars == <<puppetDb, by_mid, resolves, nresolves, strangers, byProfile>>

VARIABLES
    \* ---- the conversation objects (portal.py 59, 805-813, 848-866, db/portal.py)
    portalDb,           \* the chat ids that have a row in the portal table
    by_chat_id,         \* Portal.by_chat_id: chat -> the Portal object registered for it, 0 for none
    gets,               \* the calls of Portal.get_by_chat_id: position, chat and result of each
    ngets               \* calls started so far; the Portal object call n makes is object n

chatVars == <<portalDb, by_chat_id, gets, ngets>>

VARIABLES
    \* ---- a backfill pass over a chat that has a room (portal.py 624-666)
    bfOut,              \* the outgoing message with a receipt count that was backfilled last
    \* ---- the participant sync of one Portal with a room (portal.py 572-615)
    members,            \* last: _last_participant_update; joined: the puppets in the room
    psync               \* the call of _update_participants made last, and whether it returned at 584-586

passVars == <<bfOut, members, psync>>

peopleVars == <<profile, icon, shown, identityVars, chatVars, passVars>>

VARIABLES
    \* ---- login of one user (commands/auth.py, rpc/client.py 113-172)
    command_status,     \* User.command_status: "none", or "login" while a login is in progress
    logins,             \* the login attempts: position, and the state of the sequence of each
    nlogins,            \* attempts started so far
    loginEvents         \* login events the remote side has sent

loginVars == <<command_status, logins, nlogins, loginEvents>>

portalVars == <<mxid, create_room_lock, backfill_lock, dbMessages, sent, createCalls, remoteMax, tasks, ntasks, insertRejected,
               registryVars, matrixVars, receiptVars, mediaVars, peopleVars>>

rpcVars == <<reader, writer, req_id, min_broadcast_id, response_waiters, command_queue,
             connecting, connCount, stream, readTask, cmdLoop, evTasks, awaiting,
             arrived, lastFrame, lowest, issued, dispatchCount, seqStarted>>

vars == <<rpcVars, portalVars, loginVars>>

NoFrame == [kind |-> "none", id |-> 0, cmd |-> "none"]

\* rpc.py 43-53: RPCClient.__init__
RpcInit ==
    /\ reader = FALSE
    /\ writer = FALSE
    /\ req_id = 0
    /\ min_broadcast_id = 0
    /\ response_waiters = <<>>
    /\ command_queue = <<>>
    /\ connecting = 0
    /\ connCount = 0
    /\ stream = <<>>
    /\ readTask = <<>>
    /\ cmdLoop = <<>>
    /\ evTasks = {}
    /\ awaiting = {}
    /\ arrived = 0
    /\ lastFrame = NoFrame
    /\ lowest = 0
    /\ issued = <<>>
    /\ dispatchCount = [b \in Bids |-> 0]
    /\ seqStarted = <<>>

\* rpc.py 78-81: the _next_req_id property
NextReqId(r) == r + 1

\* rpc.py 90-93: _run_event_handler keeps a broadcast unless its id is above the watermark
AcceptBroadcast(id, watermark) == ~(id > watermark)

\* A transport that hands a response to the oldest pending request instead of
\* the one whose id the frame carries.
CompleteOldestWaiter(waiters, id, cmd) ==
    LET pending == {i \in DOMAIN waiters : waiters[i] = "pending"} IN
    IF pending = {} \/ cmd \notin {"response", "error"} THEN waiters
    ELSE LET o == CHOOSE i \in pending : \A j \in pending : i <= j IN
         [waiters EXCEPT ![o] = IF cmd = "response" THEN "result" ELSE "exception"]

\* rpc.py 124-134: the waiter of req_id, if any, is completed by "response" or "error".
\* Completing a future that is already done raises InvalidStateError (caught at
\* rpc.py 167) and changes nothing.
CompleteWaiter(waiters, id, cmd) ==
    IF id \notin DOMAIN waiters THEN waiters
    ELSE IF waiters[id] # "pending" THEN waiters
    ELSE IF cmd = "response" THEN [waiters EXCEPT ![id] = "result"]
    ELSE IF cmd = "error" THEN [waiters EXCEPT ![id] = "exception"]
    ELSE waiters

\* rpc.py 173-175: _raw_request takes the next id and registers its future
RegisterWaiter(waiters, id) ==
    [i \in DOMAIN waiters \cup {id} |-> IF i = id THEN "pending" ELSE waiters[i]]

NoTask == [kind |-> "none", chat |-> "", mid |-> 0, pc |-> "idle",
           batch |-> <<>>, live |-> FALSE, room |-> 0, err |-> FALSE, event |-> 0,
           bare |-> FALSE, noid |-> 0, muted |-> FALSE, failed |-> 0]

MsgTypes == {"text", "media", "other"}

\* No platform message has been handled yet.
NoMatrixMsg == [pc |-> "idle", event |-> 0, chat |-> "", msgtype |-> "text",
                client |-> FALSE, reachable |-> FALSE, logged |-> FALSE, echo |-> FALSE,
                reports |-> FALSE, stored |-> FALSE, noticed |-> FALSE]

\* No call of _handle_remote_media: mxc 0 stands for a None result
NoMediaCall == [pc |-> "idle", key |-> "", dedup |-> FALSE, mxc |-> 0]

\* No call of Puppet.get_by_mid: obj 0 stands for no result
\* No call of Portal.get_by_chat_id has been made in this slot.
NoGet == [pc |-> "idle", chat |-> "", obj |-> 0]

NoResolve == [pc |-> "idle", mid |-> "", obj |-> 0]

\* No receipt has been handled yet.
NoReceipt == [n |-> 0, chat |-> "", mid |-> 0, count |-> 0, natives |-> {}]

\* portal.py 70-81 (Portal.__init__), an empty database, and a remote side
\* without messages
PortalInit ==
    /\ mxid = [c \in AllChats |-> 0]
    /\ create_room_lock = [c \in AllChats |-> 0]
    /\ backfill_lock = [c \in AllChats |-> FALSE]
    /\ dbMessages = {}
    /\ sent = [c \in AllChats |-> [m \in 0..MaxMid |-> 0]]
    /\ createCalls = [c \in AllChats |-> 0]
    /\ remoteMax = [c \in AllChats |-> 0]
    /\ tasks = [t \in Tasks |-> NoTask]
    /\ ntasks = 0
    /\ insertRejected = FALSE
    /\ by_mxid = {}
    /\ portals = {}
    /\ deleted = {}
    /\ remoteSends = 0
    /\ notices = 0
    /\ mxMsg = NoMatrixMsg
    /\ participants = [c \in AllChats |-> {}]
    /\ receipts = {}
    /\ reactions = {}
    /\ rct = NoReceipt
    /\ media = {}
    /\ mcalls = [n \in MediaCalls |-> NoMediaCall]
    /\ nmcalls = 0
    /\ uploads = 0
    /\ profile = [name |-> "", name_set |-> FALSE, avatar_path |-> "", avatar_mxc |-> "", avatar_set |-> FALSE]
    /\ icon = [icon_path |-> "", icon_mxc |-> ""]
    /\ shown = [displayname |-> "", avatar |-> "", room_avatar |-> ""]
    /\ puppetDb = {}
    /\ by_mid = [m \in GroupMembers |-> 0]
    /\ resolves = [n \in 1..MaxResolves |-> NoResolve]
    /\ nresolves = 0
    /\ portalDb = {}
    /\ by_chat_id = [c \in AllChats |-> 0]
    /\ gets = [n \in 1..MaxGets |-> NoGet]
    /\ ngets = 0
    /\ bfOut = [n |-> 0, chat |-> "", mid |-> 0, count |-> 0]
    /\ members = [last |-> {}, joined |-> {}]
    /\ psync = [tick |-> FALSE, observed |-> {}, short |-> FALSE]
    /\ strangers = {}
    /\ byProfile = [tick |-> FALSE, name |-> "", path |-> "", matched |-> FALSE,
                    ok |-> FALSE, mid |-> ""]

\* An attempt that has not started: no generator, no watcher, no future.
NoLogin == [kind |-> "none", pc |-> "idle", data |-> <<>>, yielded |-> <<>>, handled |-> <<>>,
            failure |-> FALSE, watcher |-> "none", future |-> "none", handlers |-> FALSE,
            cleared |-> FALSE, missed |-> FALSE, cancels |-> 0]

\* user.py 55 (User.__init__): no command is active
LoginInit ==
    /\ command_status = "none"
    /\ logins = [a \in Logins |-> NoLogin]
    /\ nlogins = 0
    /\ loginEvents = 0

(***************************************************************************)
(* Transport actions.                                                      *)
(***************************************************************************)

\* rpc.py 173-181 as called from request() (183-185): the caller takes an id,
\* registers the future, writes the frame and suspends on the future.
SendRequest ==
    /\ req_id' = NextReqId(req_id)
    /\ response_waiters' = RegisterWaiter(response_waiters, req_id')
    /\ issued' = Append(issued, req_id')
    /\ awaiting' = awaiting \cup {req_id'}

\* rpc.py 55-65 (called by Client.start, client.py 26-28): connect() finds no
\* writer and suspends in open_connection.
ConnectBegin ==
    /\ ~writer
    /\ connCount + connecting < MaxConn
    /\ connecting' = connecting + 1
    /\ UNCHANGED portalVars
    /\ UNCHANGED loginVars
    /\ UNCHANGED <<reader, writer, req_id, min_broadcast_id, response_waiters, command_queue,
                   connCount, stream, readTask, cmdLoop, evTasks, awaiting,
                   arrived, lastFrame, lowest, issued, dispatchCount, seqStarted>>

\* rpc.py 66-70: the connection is open; the streams are stored, a read loop and
\* a command loop are created and "register" is requested.
ConnectEnd ==
    /\ connecting > 0
    /\ connecting' = connecting - 1
    /\ connCount' = connCount + 1
    /\ reader' = TRUE
    /\ writer' = TRUE
    /\ stream' = Append(stream, "open")
    /\ readTask' = Append(readTask, "running")
    /\ cmdLoop' = Append(cmdLoop, 0)
    /\ SendRequest
    /\ UNCHANGED portalVars
    /\ UNCHANGED loginVars
    /\ UNCHANGED <<min_broadcast_id, command_queue, evTasks,
                   arrived, lastFrame, lowest, dispatchCount, seqStarted>>

\* client.py 28-92 -> rpc.py 183-185: a typed request on a transport that has a writer.
Request ==
    /\ writer
    /\ Len(issued) < MaxReq + connCount
    /\ SendRequest
    /\ UNCHANGED portalVars
    /\ UNCHANGED loginVars
    /\ UNCHANGED <<reader, writer, min_broadcast_id, command_queue,
                   connecting, connCount, stream, readTask, cmdLoop, evTasks,
                   arrived, lastFrame, lowest, dispatchCount, seqStarted>>

\* rpc.py 174-178: without a writer the id is taken and the future registered
\* before self._writer.write raises AttributeError; with a writer whose peer has
\* closed, drain() (180) may raise.  Nobody awaits the future.
RequestFails ==
    /\ \/ ~writer
       \/ connCount > 0 /\ stream[connCount] = "closed"
    /\ Len(issued) < MaxReq + connCount
    /\ req_id' = NextReqId(req_id)
    /\ response_waiters' = RegisterWaiter(response_waiters, req_id')
    /\ issued' = Append(issued, req_id')
    /\ UNCHANGED portalVars
    /\ UNCHANGED loginVars
    /\ UNCHANGED <<reader, writer, min_broadcast_id, command_queue,
                   connecting, connCount, stream, readTask, cmdLoop, evTasks, awaiting,
                   arrived, lastFrame, lowest, dispatchCount, seqStarted>>

\* rpc.py 72-76 (called by Client.stop, client.py 30-32)
Disconnect ==
    /\ writer
    /\ writer' = FALSE
    /\ reader' = FALSE
    /\ UNCHANGED portalVars
    /\ UNCHANGED loginVars
    /\ UNCHANGED <<req_id, min_broadcast_id, response_waiters, command_queue,
                   connecting, connCount, stream, readTask, cmdLoop, evTasks, awaiting,
                   arrived, lastFrame, lowest, issued, dispatchCount, seqStarted>>

\* rpc.py 149: the loop condition, evaluated by read task k after it handled a
\* line.  self._reader is the transport's current reader: None ends the loop
\* (169-171); the reader of a newer connection makes this task call readuntil()
\* on a stream the newer task is already waiting on, which raises RuntimeError
\* (caught at 145).
ReadLoopCheck(k) ==
    IF reader /\ k = connCount
    THEN UNCHANGED <<reader, writer, readTask>>
    ELSE IF reader
         THEN /\ readTask' = [readTask EXCEPT ![k] = "ended"]
              /\ UNCHANGED <<reader, writer>>
         ELSE /\ readTask' = [readTask EXCEPT ![k] = "ended"]
              /\ reader' = FALSE
              /\ writer' = FALSE

CanRead(k) ==
    /\ k \in 1..connCount
    /\ readTask[k] = "running"
    /\ stream[k] = "open"
    /\ arrived < MaxFrames

\* The same for a line that holds a broadcast.
CanReadEvent(k) ==
    /\ k \in 1..connCount
    /\ readTask[k] = "running"
    /\ stream[k] = "open"
    /\ arrived < MaxEventFrames

\* The ways a received record can be unusable: bytes that are not UTF-8,
\* text that is not JSON, JSON that is not an object, an object without
\* "id", an object without "command".
InvalidKinds == {"non_utf8", "non_json", "non_object", "no_id", "no_command"}

\* A read loop without the catch-all of rpc.py 167-168: the TypeError or
\* AttributeError that req.pop raises on JSON that is not an object leaves it.
LineOutcomeUncaught(why) == IF why = "non_object" THEN "fatal" ELSE "dropped"

\* rpc.py 160-168 with 106-117: what becomes of an unusable record.
\* UnicodeDecodeError is caught at 162, JSONDecodeError at 108, KeyError at
\* 115; req.pop on a list, string, number or null raises TypeError or
\* AttributeError, which leaves _handle_incoming_line and is caught at 167.
LineOutcome(why) ==
    CASE why = "non_utf8" -> "dropped"
      [] why = "non_json" -> "dropped"
      [] why = "non_object" -> "dropped"
      [] why \in {"no_id", "no_command"} -> "dropped"

\* rpc.py 149-168: an unusable record is read; it is logged and the loop goes
\* on to its condition (an exception that left the loop would end the task,
\* 142-146)
RecvInvalid(k, why) ==
    /\ CanRead(k)
    /\ arrived' = arrived + 1
    /\ lastFrame' = [kind |-> "invalid", id |-> 0, cmd |-> why]
    /\ UNCHANGED lowest
    /\ IF LineOutcome(why) = "dropped"
       THEN ReadLoopCheck(k)
       ELSE /\ readTask' = [readTask EXCEPT ![k] = "ended"]
            /\ UNCHANGED <<reader, writer>>
    /\ UNCHANGED portalVars
    /\ UNCHANGED loginVars
    /\ UNCHANGED <<req_id, min_broadcast_id, response_waiters, command_queue,
                   connecting, connCount, stream, cmdLoop, evTasks, awaiting,
                   issued, dispatchCount, seqStarted>>

\* rpc.py 118-123: a broadcast becomes a task of its own, or joins the queue
RecvBroadcast(k, id, is_sequential) ==
    /\ CanReadEvent(k)
    /\ arrived' = arrived + 1
    /\ lastFrame' = [kind |-> "broadcast", id |-> id, cmd |-> "event"]
    /\ lowest' = IF id < lowest THEN id ELSE lowest
    /\ IF ~is_sequential
       THEN /\ evTasks' = evTasks \cup {[n |-> arrived + 1, id |-> id, st |-> "new",
                                        fresh |-> id < lowest]}
            /\ UNCHANGED command_queue
       ELSE /\ command_queue' = Append(command_queue, [n |-> arrived + 1, id |-> id,
                                                       fresh |-> id < lowest])
            /\ UNCHANGED evTasks
    /\ ReadLoopCheck(k)
    /\ UNCHANGED portalVars
    /\ UNCHANGED loginVars
    /\ UNCHANGED <<req_id, min_broadcast_id, response_waiters,
                   connecting, connCount, stream, cmdLoop, awaiting,
                   issued, dispatchCount, seqStarted>>

\* rpc.py 124-134: a frame with a request id
RecvResponse(k, id, cmd) ==
    /\ CanRead(k)
    /\ arrived' = arrived + 1
    /\ lastFrame' = [kind |-> "response", id |-> id, cmd |-> cmd]
    /\ UNCHANGED lowest
    /\ response_waiters' = CompleteWaiter(response_waiters, id, cmd)
    /\ awaiting' = {i \in awaiting : response_waiters'[i] = "pending"}
    /\ ReadLoopCheck(k)
    /\ UNCHANGED portalVars
    /\ UNCHANGED loginVars
    /\ UNCHANGED <<req_id, min_broadcast_id, command_queue,
                   connecting, connCount, stream, cmdLoop, evTasks,
                   issued, dispatchCount, seqStarted>>

\* rpc.py 149, 169-171: at_eof() is true when the loop condition is evaluated
\* (the peer closed together with the last line, or before the first read).
ReadEofAtCheck(k) ==
    /\ k \in 1..connCount
    /\ readTask[k] = "running"
    /\ stream[k] = "open"
    /\ reader /\ k = connCount
    /\ stream' = [stream EXCEPT ![k] = "closed"]
    /\ readTask' = [readTask EXCEPT ![k] = "ended"]
    /\ reader' = FALSE
    /\ writer' = FALSE
    /\ UNCHANGED portalVars
    /\ UNCHANGED loginVars
    /\ UNCHANGED <<req_id, min_broadcast_id, response_waiters, command_queue,
                   connecting, connCount, cmdLoop, evTasks, awaiting,
                   arrived, lastFrame, lowest, issued, dispatchCount, seqStarted>>

\* rpc.py 153, 142-146: the peer closes while the task is suspended in
\* readuntil(), which raises IncompleteReadError; _try_read_loop logs it and
\* the task ends without reaching 169-171.
ReadEofInReaduntil(k) ==
    /\ k \in 1..connCount
    /\ readTask[k] = "running"
    /\ stream[k] = "open"
    /\ stream' = [stream EXCEPT ![k] = "closed"]
    /\ readTask' = [readTask EXCEPT ![k] = "ended"]
    /\ UNCHANGED portalVars
    /\ UNCHANGED loginVars
    /\ UNCHANGED <<reader, writer, req_id, min_broadcast_id, response_waiters, command_queue,
                   connecting, connCount, cmdLoop, evTasks, awaiting,
                   arrived, lastFrame, lowest, issued, dispatchCount, seqStarted>>

\* rpc.py 120-122, 137: the event loop runs what it scheduled in order. The
\* task of a broadcast and the wake-up of a command loop suspended in get()
\* are scheduled when the frame is handled, so the broadcast that arrived as
\* number n is checked next only if no unchecked task is older and no older
\* queue entry has an idle command loop to take it.
ChecksFirst(n) ==
    /\ \A u \in evTasks : u.st = "new" => n <= u.n
    /\ (command_queue # <<>> /\ \E c \in 1..connCount : cmdLoop[c] = 0)
          => n <= Head(command_queue).n

\* rpc.py 89-93 then 94-101, run by the task of a non-sequential broadcast
RunEventTask(t) ==
    /\ t \in evTasks
    /\ t.st = "new"
    /\ ChecksFirst(t.n)
    /\ IF AcceptBroadcast(t.id, min_broadcast_id)
       THEN /\ min_broadcast_id' = t.id
            /\ dispatchCount' = [dispatchCount EXCEPT ![t.id] = @ + 1]
            /\ evTasks' = (evTasks \ {t}) \cup {[t EXCEPT !.st = "run"]}
       ELSE /\ evTasks' = evTasks \ {t}
            /\ UNCHANGED <<min_broadcast_id, dispatchCount>>
    /\ UNCHANGED portalVars
    /\ UNCHANGED loginVars
    /\ UNCHANGED <<reader, writer, req_id, response_waiters, command_queue,
                   connecting, connCount, stream, readTask, cmdLoop, awaiting,
                   arrived, lastFrame, lowest, issued, seqStarted>>

\* rpc.py 99-103: the handlers of the event have returned (or raised)
EventTaskDone(t) ==
    /\ t \in evTasks
    /\ t.st = "run"
    /\ evTasks' = evTasks \ {t}
    /\ UNCHANGED portalVars
    /\ UNCHANGED loginVars
    /\ UNCHANGED <<reader, writer, req_id, min_broadcast_id, response_waiters, command_queue,
                   connecting, connCount, stream, readTask, cmdLoop, awaiting,
                   arrived, lastFrame, lowest, issued, dispatchCount, seqStarted>>

\* rpc.py 136-139 with 89-93: command loop c takes the head of the queue
CommandLoopGet(c) ==
    /\ c \in 1..connCount
    /\ cmdLoop[c] = 0
    /\ command_queue # <<>>
    /\ ChecksFirst(Head(command_queue).n)
    /\ command_queue' = Tail(command_queue)
    /\ LET e == Head(command_queue) IN
       IF AcceptBroadcast(e.id, min_broadcast_id)
       THEN /\ min_broadcast_id' = e.id
            /\ dispatchCount' = [dispatchCount EXCEPT ![e.id] = @ + 1]
            /\ seqStarted' = Append(seqStarted, e.n)
            /\ cmdLoop' = [cmdLoop EXCEPT ![c] = e.id]
       ELSE UNCHANGED <<min_broadcast_id, dispatchCount, seqStarted, cmdLoop>>
    /\ UNCHANGED portalVars
    /\ UNCHANGED loginVars
    /\ UNCHANGED <<reader, writer, req_id, response_waiters,
                   connecting, connCount, stream, readTask, evTasks, awaiting,
                   arrived, lastFrame, lowest, issued>>

\* rpc.py 139-140: the handlers returned; task_done() and back to get()
CommandLoopDone(c) ==
    /\ c \in 1..connCount
    /\ cmdLoop[c] # 0
    /\ cmdLoop' = [cmdLoop EXCEPT ![c] = 0]
    /\ UNCHANGED portalVars
    /\ UNCHANGED loginVars
    /\ UNCHANGED <<reader, writer, req_id, min_broadcast_id, response_waiters, command_queue,
                   connecting, connCount, stream, readTask, evTasks, awaiting,
                   arrived, lastFrame, lowest, issued, dispatchCount, seqStarted>>

(***************************************************************************)
(* Storage (db/message.py, db/upgrade.py).                                 *)
(***************************************************************************)

\* A message table without the UNIQUE (mid, chat_id) constraint.
InsertMessageUnchecked(table, rec) == table \cup {rec}

\* db/message.py 35-37 under the constraint of db/upgrade.py 152-153,
\* UNIQUE (mid, chat_id): the row is added unless one with that remote id
\* exists for the chat (then the insert raises UniqueViolationError). A row
\* without a remote id (mid 0 stands for NULL) conflicts with none.
InsertMessage(table, rec) ==
    IF rec.mid # 0 /\ \E r \in table : r.mid = rec.mid /\ r.chat_id = rec.chat_id
    THEN table
    ELSE table \cup {rec}

\* db/message.py 83-89: a row with this remote id, in whatever chat; no row
\* equals a NULL id
GetByMid(table, mid) == mid # 0 /\ \E r \in table : r.mid = mid

\* db/message.py 91-97: the rows of the room that have no remote id
NoidMsgs(table, room) == {r \in table : r.mid = 0 /\ r.mx_room = room}

\* db/message.py 99-104: the rows of the room without a remote id are deleted
DeleteAllNoidMsgs(table, room) == table \ NoidMsgs(table, room)

\* db/message.py 39-43: the rows of the room and chat with this event id get
\* the new event id and remote id
UpdateIds(table, old_mxid, room, c, new_mxid, new_mid) ==
    {IF r.mxid = old_mxid /\ r.mx_room = room /\ r.chat_id = c
     THEN [r EXCEPT !.mxid = new_mxid, !.mid = new_mid]
     ELSE r : r \in table}

\* db/message.py 46-47 with the `or 0` of portal.py 629
GetMaxMid(table, room) ==
    LET mids == {r.mid : r \in {x \in table : x.mx_room = room}} IN
    IF mids = {} THEN 0 ELSE CHOOSE m \in mids : \A n \in mids : n <= m

RECURSIVE SeqFromTo(_, _)
\* rpc get_messages: the remote history 1..n, oldest first
SeqFromTo(a, b) == IF a > b THEN <<>> ELSE <<a>> \o SeqFromTo(a + 1, b)

\* portal.py 630-631: the messages newer than max_mid
NewerThan(msgs, max_mid) == SelectSeq(msgs, LAMBDA m : m > max_mid)

(***************************************************************************)
(* Conversation actions.  Task t runs one trigger; pc is the await it is   *)
(* suspended in.                                                           *)
(***************************************************************************)

SetTask(t, r) == tasks' = [tasks EXCEPT ![t] = r]

\* portal.py 83-84: a chat id that starts with "u" is a direct chat
IsDirect(c) == c \notin GroupChats

\* puppet.py 195-197: the ids of the bridge user's own puppets
IsOwn(who) == who = Own

\* The participant list the remote side reports for a chat (portal.py 509-510:
\* the list of a multi-user chat includes the bridge user)
RemoteParticipants(c) == IF IsDirect(c) THEN {c} ELSE GroupMembers \cup {Own}

\* A trigger that has returned: the coroutine's locals are gone, the room it
\* ended with is kept for the record.
Finished(r) == [r EXCEPT !.pc = "done", !.batch = <<>>, !.mid = 0, !.event = 0, !.live = FALSE,
                         !.bare = FALSE, !.noid = 0]

\* The id the homeserver gives an event (portal.py 369-391): an opaque id no
\* two sends share, here numbered by the sending task, the message and
\* whether the send is live.
EventId(t, mid, live) == (t * (MaxMid + 1) + mid) * 2 + (IF live THEN 1 ELSE 0)

\* The id of the room a trigger brings: the one create_room returns to it
\* (portal.py 785) or the one it was invited to (matrix.py 105); no two
\* triggers bring the same room.
RoomId(t) == t

Spawn(kind, c, m) ==
    /\ ntasks < MaxTasks
    /\ ntasks' = ntasks + 1
    /\ SetTask(ntasks + 1, [NoTask EXCEPT !.kind = kind, !.chat = c, !.mid = m, !.pc = "lookup"])

\* rpc.py 120 -> client.py 94-98 -> user.py 212: a "message" event reaches
\* User.handle_message in a task of its own; the remote history holds it.
SpawnMessage(c, m) ==
    /\ Spawn("message", c, m)
    /\ remoteMax' = [remoteMax EXCEPT ![c] = IF m > @ THEN m ELSE @]
    /\ UNCHANGED <<mxid, create_room_lock, backfill_lock, dbMessages, sent, createCalls, insertRejected>>
    /\ UNCHANGED rpcVars
    /\ UNCHANGED registryVars
    /\ UNCHANGED matrixVars
    /\ UNCHANGED receiptVars
    /\ UNCHANGED mediaVars
    /\ UNCHANGED peopleVars
    /\ UNCHANGED loginVars

\* As SpawnMessage, for a message event without a remote id (portal.py
\* 272-275), which get_messages never returns; bare: the event is a
\* membership change and renders no platform event (portal.py 374-384)
SpawnPreview(c, bare) ==
    /\ ntasks < MaxTasks
    /\ ntasks' = ntasks + 1
    /\ SetTask(ntasks + 1, [NoTask EXCEPT !.kind = "message", !.chat = c, !.bare = bare, !.pc = "lookup"])
    /\ UNCHANGED <<mxid, create_room_lock, backfill_lock, dbMessages, sent, createCalls, remoteMax, insertRejected>>
    /\ UNCHANGED rpcVars
    /\ UNCHANGED registryVars
    /\ UNCHANGED matrixVars
    /\ UNCHANGED receiptVars
    /\ UNCHANGED mediaVars
    /\ UNCHANGED peopleVars
    /\ UNCHANGED loginVars

\* rpc.py 120 -> client.py 100-104 -> user.py 224: a "receipt" event
SpawnReceipt(c, m) ==
    /\ m <= remoteMax[c]
    /\ Spawn("receipt", c, m)
    /\ UNCHANGED <<mxid, create_room_lock, backfill_lock, dbMessages, sent, createCalls, remoteMax, insertRejected>>
    /\ UNCHANGED rpcVars
    /\ UNCHANGED registryVars
    /\ UNCHANGED matrixVars
    /\ UNCHANGED receiptVars
    /\ UNCHANGED mediaVars
    /\ UNCHANGED peopleVars
    /\ UNCHANGED loginVars

\* user.py 121, 127-129, 163-164: a sync pass reaches this chat
SpawnSync(c) ==
    /\ Spawn("sync", c, 0)
    /\ UNCHANGED <<mxid, create_room_lock, backfill_lock, dbMessages, sent, createCalls, remoteMax, insertRejected>>
    /\ UNCHANGED rpcVars
    /\ UNCHANGED registryVars
    /\ UNCHANGED matrixVars
    /\ UNCHANGED receiptVars
    /\ UNCHANGED mediaVars
    /\ UNCHANGED peopleVars
    /\ UNCHANGED loginVars

\* matrix.py 55-88: a user invites the puppet of this chat to a room of theirs
SpawnInvite(c) ==
    /\ Spawn("invite", c, 0)
    /\ UNCHANGED <<mxid, create_room_lock, backfill_lock, dbMessages, sent, createCalls, remoteMax, insertRejected>>
    /\ UNCHANGED rpcVars
    /\ UNCHANGED registryVars
    /\ UNCHANGED matrixVars
    /\ UNCHANGED receiptVars
    /\ UNCHANGED mediaVars
    /\ UNCHANGED peopleVars
    /\ UNCHANGED loginVars

\* the remote side gets a message while no event is forwarded (client.pause(),
\* or the bridge is not connected)
RemoteMessage(c) ==
    /\ remoteMax[c] < MaxMid
    /\ remoteMax' = [remoteMax EXCEPT ![c] = @ + 1]
    /\ UNCHANGED <<mxid, create_room_lock, backfill_lock, dbMessages, sent, createCalls, tasks, ntasks, insertRejected>>
    /\ UNCHANGED rpcVars
    /\ UNCHANGED registryVars
    /\ UNCHANGED matrixVars
    /\ UNCHANGED receiptVars
    /\ UNCHANGED mediaVars
    /\ UNCHANGED peopleVars
    /\ UNCHANGED loginVars

At(t, kind, pc) == tasks[t].kind = kind /\ tasks[t].pc = pc

\* user.py 214-215: the portal of the chat; without a room the task goes on
\* to 216-220, with one to handle_remote_message (222)
MessageLookup(t) ==
    /\ At(t, "message", "lookup")
    /\ LET c == tasks[t].chat IN
       IF mxid[c] = 0
       THEN SetTask(t, [tasks[t] EXCEPT !.pc = "prep"])
       ELSE SetTask(t, [tasks[t] EXCEPT !.pc = "hrm_check", !.live = TRUE,
                                        !.batch = <<tasks[t].mid>>, !.room = mxid[c]])
    /\ UNCHANGED <<mxid, create_room_lock, backfill_lock, dbMessages, sent, createCalls, remoteMax, ntasks, insertRejected>>
    /\ UNCHANGED rpcVars
    /\ portals' = portals \cup {tasks[t].chat}
    /\ UNCHANGED <<by_mxid, deleted>>
    /\ UNCHANGED matrixVars
    /\ UNCHANGED receiptVars
    /\ UNCHANGED mediaVars
    /\ UNCHANGED peopleVars
    /\ UNCHANGED loginVars

\* user.py 226-227: as for a message; with a room, on to handle_remote_receipt (230)
ReceiptLookup(t) ==
    /\ At(t, "receipt", "lookup")
    /\ LET c == tasks[t].chat IN
       IF mxid[c] = 0
       THEN SetTask(t, [tasks[t] EXCEPT !.pc = "prep"])
       ELSE SetTask(t, [tasks[t] EXCEPT !.pc = "rr_check", !.live = TRUE, !.room = mxid[c]])
    /\ UNCHANGED <<mxid, create_room_lock, backfill_lock, dbMessages, sent, createCalls, remoteMax, ntasks, insertRejected>>
    /\ UNCHANGED rpcVars
    /\ portals' = portals \cup {tasks[t].chat}
    /\ UNCHANGED <<by_mxid, deleted>>
    /\ UNCHANGED matrixVars
    /\ UNCHANGED receiptVars
    /\ UNCHANGED mediaVars
    /\ UNCHANGED peopleVars
    /\ UNCHANGED loginVars

\* user.py 165-166: the portal of the chat, then get_chat
SyncLookup(t) ==
    /\ At(t, "sync", "lookup")
    /\ SetTask(t, [tasks[t] EXCEPT !.pc = "prep"])
    /\ UNCHANGED <<mxid, create_room_lock, backfill_lock, dbMessages, sent, createCalls, remoteMax, ntasks, insertRejected>>
    /\ UNCHANGED rpcVars
    /\ portals' = portals \cup {tasks[t].chat}
    /\ UNCHANGED <<by_mxid, deleted>>
    /\ UNCHANGED matrixVars
    /\ UNCHANGED receiptVars
    /\ UNCHANGED mediaVars
    /\ UNCHANGED peopleVars
    /\ UNCHANGED loginVars

\* matrix.py 89-105: the portal of the chat; with a room the inviter is
\* invited to it (92), without one the user's room becomes the portal's room
\* (105), with no lock taken.
InviteLookup(t) ==
    /\ At(t, "invite", "lookup")
    /\ LET c == tasks[t].chat IN
       IF mxid[c] # 0
       THEN /\ SetTask(t, [tasks[t] EXCEPT !.pc = "inv_existing", !.room = mxid[c]])
            /\ UNCHANGED mxid
       ELSE /\ mxid' = [mxid EXCEPT ![c] = RoomId(t)]
            /\ SetTask(t, [tasks[t] EXCEPT !.pc = "inv_save", !.room = RoomId(t)])
    /\ UNCHANGED <<create_room_lock, backfill_lock, dbMessages, sent, createCalls, remoteMax, ntasks, insertRejected>>
    /\ UNCHANGED rpcVars
    /\ portals' = portals \cup {tasks[t].chat}
    /\ UNCHANGED <<by_mxid, deleted>>
    /\ UNCHANGED matrixVars
    /\ UNCHANGED receiptVars
    /\ UNCHANGED mediaVars
    /\ UNCHANGED peopleVars
    /\ UNCHANGED loginVars

\* matrix.py 91-103: inviting to the existing room succeeds and the handler
\* returns (101), or raises MatrixError and the handler falls through to 105.
InviteExisting(t) ==
    /\ At(t, "invite", "inv_existing")
    /\ LET c == tasks[t].chat IN
       \/ /\ SetTask(t, Finished(tasks[t]))
          /\ UNCHANGED mxid
       \/ /\ mxid' = [mxid EXCEPT ![c] = RoomId(t)]
          /\ SetTask(t, [tasks[t] EXCEPT !.pc = "inv_save", !.room = RoomId(t), !.err = TRUE])
    /\ UNCHANGED <<create_room_lock, backfill_lock, dbMessages, sent, createCalls, remoteMax, ntasks, insertRejected>>
    /\ UNCHANGED rpcVars
    /\ UNCHANGED registryVars
    /\ UNCHANGED matrixVars
    /\ UNCHANGED receiptVars
    /\ UNCHANGED mediaVars
    /\ UNCHANGED peopleVars
    /\ UNCHANGED loginVars

\* matrix.py 106-129: encryption check, save, notice, pause, get_chat, then
\* update_matrix_room
InviteSave(t) ==
    /\ At(t, "invite", "inv_save")
    /\ SetTask(t, [tasks[t] EXCEPT !.pc = "upd"])
    /\ UNCHANGED <<mxid, create_room_lock, backfill_lock, dbMessages, sent, createCalls, remoteMax, ntasks, insertRejected>>
    /\ UNCHANGED rpcVars
    /\ UNCHANGED registryVars
    /\ UNCHANGED matrixVars
    /\ UNCHANGED receiptVars
    /\ UNCHANGED mediaVars
    /\ UNCHANGED peopleVars
    /\ UNCHANGED loginVars

\* portal.py 709-713 and 726: with a room, update it; else take the creation
\* lock (at once when it is free) and look at the room id again
EnterCreate(t, c) ==
    IF mxid[c] # 0
    THEN /\ SetTask(t, [tasks[t] EXCEPT !.pc = "upd"])
         /\ UNCHANGED create_room_lock
    ELSE IF create_room_lock[c] = 0
         THEN /\ create_room_lock' = [create_room_lock EXCEPT ![c] = t]
              /\ SetTask(t, [tasks[t] EXCEPT !.pc = "create_info"])
         ELSE /\ SetTask(t, [tasks[t] EXCEPT !.pc = "lockwait"])
              /\ UNCHANGED create_room_lock

\* user.py 216-221, 228-229, 166-167: the requests before create_matrix_room
\* have returned and create_matrix_room is called
Prep(t) ==
    /\ tasks[t].pc = "prep"
    /\ EnterCreate(t, tasks[t].chat)
    /\ UNCHANGED <<mxid, backfill_lock, dbMessages, sent, createCalls, remoteMax, ntasks, insertRejected>>
    /\ UNCHANGED rpcVars
    /\ UNCHANGED registryVars
    /\ UNCHANGED matrixVars
    /\ UNCHANGED receiptVars
    /\ UNCHANGED mediaVars
    /\ UNCHANGED peopleVars
    /\ UNCHANGED loginVars

\* portal.py 712, 726-728: the creation lock is free again
LockWait(t) ==
    /\ tasks[t].pc = "lockwait"
    /\ LET c == tasks[t].chat IN
       /\ create_room_lock[c] = 0
       /\ create_room_lock' = [create_room_lock EXCEPT ![c] = t]
       /\ SetTask(t, [tasks[t] EXCEPT !.pc = IF mxid[c] # 0 THEN "upd" ELSE "create_info"])
    /\ UNCHANGED <<mxid, backfill_lock, dbMessages, sent, createCalls, remoteMax, ntasks, insertRejected>>
    /\ UNCHANGED rpcVars
    /\ UNCHANGED registryVars
    /\ UNCHANGED matrixVars
    /\ UNCHANGED receiptVars
    /\ UNCHANGED mediaVars
    /\ UNCHANGED peopleVars
    /\ UNCHANGED loginVars

\* portal.py 773-787: update_info has returned; the backfill lock is locked
\* and create_room is called
CreateInfo(t) ==
    /\ tasks[t].pc = "create_info"
    /\ LET c == tasks[t].chat IN
       /\ backfill_lock' = [backfill_lock EXCEPT ![c] = TRUE]
       /\ createCalls' = [createCalls EXCEPT ![c] = @ + 1]
    /\ SetTask(t, [tasks[t] EXCEPT !.pc = "creating"])
    /\ UNCHANGED <<mxid, create_room_lock, dbMessages, sent, remoteMax, ntasks, insertRejected>>
    /\ UNCHANGED rpcVars
    /\ UNCHANGED registryVars
    /\ UNCHANGED matrixVars
    /\ UNCHANGED receiptVars
    /\ UNCHANGED mediaVars
    /\ UNCHANGED peopleVars
    /\ UNCHANGED loginVars

\* portal.py 785-801, 619, 627: create_room returned a room id, which becomes
\* the portal's; backfill() locks the backfill lock and requests the history
Creating(t) ==
    /\ tasks[t].pc = "creating"
    /\ LET c == tasks[t].chat IN
       /\ mxid' = [mxid EXCEPT ![c] = RoomId(t)]
       /\ backfill_lock' = [backfill_lock EXCEPT ![c] = TRUE]
    /\ SetTask(t, [tasks[t] EXCEPT !.pc = "bf_fetch", !.room = RoomId(t)])
    /\ UNCHANGED <<create_room_lock, dbMessages, sent, createCalls, remoteMax, ntasks, insertRejected>>
    /\ UNCHANGED rpcVars
    /\ by_mxid' = by_mxid \cup {RoomId(t)}
    /\ UNCHANGED <<portals, deleted>>
    /\ UNCHANGED matrixVars
    /\ UNCHANGED receiptVars
    /\ UNCHANGED mediaVars
    /\ UNCHANGED peopleVars
    /\ UNCHANGED loginVars

\* The creation lock as its holder leaves it without releasing it.
StillLocked(holder, t) == holder

\* portal.py 712-713: leaving `async with self._create_room_lock`, by return
\* or by exception, releases the lock its holder took
Unlocked(holder, t) == IF holder = t THEN 0 ELSE holder

\* portal.py 784-789, 712-713, user.py 221, 229: create_room returned no room
\* id. The empty value is assigned to the portal's room id, the exception
\* leaves `with self.backfill_lock` (which unlocks it) and `async with
\* self._create_room_lock` (which releases it) and ends the trigger before
\* update(), the by_mxid registration and backfill().
CreateFails(t) ==
    /\ tasks[t].pc = "creating"
    /\ LET c == tasks[t].chat IN
       /\ mxid' = [mxid EXCEPT ![c] = 0]
       /\ backfill_lock' = [backfill_lock EXCEPT ![c] = FALSE]
       /\ create_room_lock' = [create_room_lock EXCEPT ![c] = Unlocked(@, t)]
    /\ SetTask(t, [Finished(tasks[t]) EXCEPT !.pc = "raised"])
    /\ UNCHANGED <<dbMessages, sent, createCalls, remoteMax, ntasks, insertRejected>>
    /\ UNCHANGED rpcVars
    /\ UNCHANGED registryVars
    /\ UNCHANGED matrixVars
    /\ UNCHANGED receiptVars
    /\ UNCHANGED mediaVars
    /\ UNCHANGED peopleVars
    /\ UNCHANGED loginVars

\* portal.py 716-723, 619, 627: _update_matrix_room up to backfill(), which
\* locks the backfill lock and requests the history
Update(t) ==
    /\ tasks[t].pc = "upd"
    /\ backfill_lock' = [backfill_lock EXCEPT ![tasks[t].chat] = TRUE]
    /\ SetTask(t, [tasks[t] EXCEPT !.pc = "bf_fetch"])
    /\ UNCHANGED <<mxid, create_room_lock, dbMessages, sent, createCalls, remoteMax, ntasks, insertRejected>>
    /\ UNCHANGED rpcVars
    /\ UNCHANGED registryVars
    /\ UNCHANGED matrixVars
    /\ UNCHANGED receiptVars
    /\ UNCHANGED mediaVars
    /\ UNCHANGED peopleVars
    /\ UNCHANGED loginVars

\* portal.py 627-629: get_messages returned the remote history; get_max_mid is queried
BackfillFetch(t) ==
    /\ tasks[t].pc = "bf_fetch"
    /\ SetTask(t, [tasks[t] EXCEPT !.pc = "bf_max",
                                   !.batch = SeqFromTo(1, remoteMax[tasks[t].chat])])
    /\ UNCHANGED <<mxid, create_room_lock, backfill_lock, dbMessages, sent, createCalls, remoteMax, ntasks, insertRejected>>
    /\ UNCHANGED rpcVars
    /\ UNCHANGED registryVars
    /\ UNCHANGED matrixVars
    /\ UNCHANGED receiptVars
    /\ UNCHANGED mediaVars
    /\ UNCHANGED peopleVars
    /\ UNCHANGED loginVars

\* portal.py 629-639: the messages newer than the newest stored one of the
\* room are replayed, the oldest first, inside the NotificationDisabler (637)
BackfillMax(t) ==
    /\ tasks[t].pc = "bf_max"
    /\ LET c == tasks[t].chat
           messages == NewerThan(tasks[t].batch, GetMaxMid(dbMessages, mxid[c]))
       IN SetTask(t, [tasks[t] EXCEPT !.batch = messages,
                                      !.muted = (messages # <<>>),
                                      !.pc = IF messages = <<>> THEN "bf_tail" ELSE "hrm_check"])
    /\ UNCHANGED <<mxid, create_room_lock, backfill_lock, dbMessages, sent, createCalls, remoteMax, ntasks, insertRejected>>
    /\ UNCHANGED rpcVars
    /\ UNCHANGED registryVars
    /\ UNCHANGED matrixVars
    /\ UNCHANGED receiptVars
    /\ UNCHANGED mediaVars
    /\ UNCHANGED peopleVars
    /\ UNCHANGED loginVars

\* handle_remote_message returned: a live task is done, a backfill goes on
\* with the next message (portal.py 638-639) or leaves the loop for 641
AfterMessage(t) ==
    IF tasks[t].live
    THEN Finished(tasks[t])
    ELSE [tasks[t] EXCEPT !.batch = Tail(@), !.event = 0, !.noid = 0,
                          !.pc = IF Tail(tasks[t].batch) = <<>> THEN "bf_clean" ELSE "hrm_check"]

\* portal.py 221-224: handle_remote_message drops a message whose remote id is stored
HrmCheck(t) ==
    /\ tasks[t].pc = "hrm_check"
    /\ IF GetByMid(dbMessages, Head(tasks[t].batch))
       THEN SetTask(t, AfterMessage(t))
       ELSE SetTask(t, [tasks[t] EXCEPT !.pc = "hrm_send"])
    /\ UNCHANGED <<mxid, create_room_lock, backfill_lock, dbMessages, sent, createCalls, remoteMax, ntasks, insertRejected>>
    /\ UNCHANGED rpcVars
    /\ UNCHANGED registryVars
    /\ UNCHANGED matrixVars
    /\ UNCHANGED receiptVars
    /\ UNCHANGED mediaVars
    /\ UNCHANGED peopleVars
    /\ UNCHANGED loginVars

\* portal.py 255-275: what a message with a remote id does with the row
\* get_next_noid_msg returned. "new": there is none; "drop": the row has no
\* event id and the handler returns; "edit": the row's event stands for the
\* message of a direct chat; "resend": in any other chat the row's event is
\* redacted and the message is sent again.
Preseen(msg, direct) ==
    IF msg.mxid = 0 THEN "drop"
    ELSE IF direct THEN "edit" ELSE "resend"

\* portal.py 226-391: the sender's intent is resolved, a message with a
\* remote id takes a row without one if the room has any (255-275), and the
\* rendered event is sent to the portal's room. The messages are text
\* messages; the event of a live one may be a membership change, which
\* renders no event (374-384).
HrmSend(t) ==
    /\ tasks[t].pc = "hrm_send"
    /\ LET c == tasks[t].chat
           m == Head(tasks[t].batch)
           noids == IF m = 0 THEN {} ELSE NoidMsgs(dbMessages, mxid[c])
           send == [tasks[t] EXCEPT !.pc = "hrm_insert", !.event = EventId(t, m, tasks[t].live)]
       IN IF noids = {}
          THEN IF tasks[t].live /\ tasks[t].bare
               THEN /\ SetTask(t, [tasks[t] EXCEPT !.pc = "hrm_insert", !.event = 0])
                    /\ UNCHANGED sent
               ELSE /\ SetTask(t, send)
                    /\ sent' = [sent EXCEPT ![c][m] = @ + 1]
          ELSE \E msg \in noids :
                  LET how == Preseen(msg, IsDirect(c)) IN
                  /\ SetTask(t, IF how = "drop" THEN AfterMessage(t)
                                ELSE IF how = "edit"
                                THEN [tasks[t] EXCEPT !.pc = "hrm_insert", !.event = msg.mxid,
                                                      !.noid = msg.mxid]
                                ELSE [send EXCEPT !.noid = msg.mxid])
                  /\ sent' = IF how = "resend" THEN [sent EXCEPT ![c][m] = @ + 1] ELSE sent
    /\ UNCHANGED <<mxid, create_room_lock, backfill_lock, dbMessages,
                   createCalls, remoteMax, ntasks, insertRejected>>
    /\ UNCHANGED rpcVars
    /\ UNCHANGED registryVars
    /\ UNCHANGED matrixVars
    /\ UNCHANGED receiptVars
    /\ UNCHANGED mediaVars
    /\ UNCHANGED peopleVars
    /\ UNCHANGED loginVars

\* portal.py 393-402: without a row to resolve, the record of the sent event
\* is inserted and a UniqueViolationError is logged (393-399); with one, the
\* row gets the ids of the message (401). An update that breaks
\* UNIQUE (mid, chat_id) raises: out of the handler of a live message, or
\* into the `except` of backfill().
HrmInsert(t) ==
    /\ tasks[t].pc = "hrm_insert"
    /\ LET c == tasks[t].chat
           m == Head(tasks[t].batch)
           rec == [mxid |-> tasks[t].event, mx_room |-> mxid[c],
                   mid |-> m, chat_id |-> c, is_outgoing |-> FALSE]
           updated == UpdateIds(dbMessages, tasks[t].noid, mxid[c], c, tasks[t].event, m)
           clash == /\ updated # dbMessages
                    /\ \E r \in dbMessages : r.mid = m /\ r.chat_id = c
       IN IF tasks[t].noid = 0
          THEN /\ dbMessages' = InsertMessage(dbMessages, rec)
               /\ insertRejected' = (insertRejected \/ rec \notin dbMessages')
               /\ SetTask(t, AfterMessage(t))
          ELSE IF clash
          THEN /\ UNCHANGED <<dbMessages, insertRejected>>
               /\ SetTask(t, IF tasks[t].live
                              THEN [tasks[t] EXCEPT !.pc = "raised", !.err = TRUE]
                              ELSE [tasks[t] EXCEPT !.pc = "bf_raise"])
          ELSE /\ dbMessages' = updated
               /\ UNCHANGED insertRejected
               /\ SetTask(t, AfterMessage(t))
    /\ UNCHANGED <<mxid, create_room_lock, backfill_lock, sent, createCalls, remoteMax, ntasks>>
    /\ UNCHANGED rpcVars
    /\ UNCHANGED registryVars
    /\ UNCHANGED matrixVars
    /\ UNCHANGED receiptVars
    /\ UNCHANGED mediaVars
    /\ UNCHANGED peopleVars
    /\ UNCHANGED loginVars

\* backfill() has returned to its caller: the `with` blocks of 619 and 784
\* and the `async with` of 712 end, so the backfill lock is unlocked and the
\* creation lock released if this task holds it, and the trigger goes on
\* (user.py 222, 230)
AfterBackfill(t) ==
    LET k == tasks[t].kind IN
    [tasks[t] EXCEPT
        !.pc = IF k = "message" THEN "hrm_check"
               ELSE IF k = "receipt" THEN "rr_check" ELSE "done",
        !.live = (k \in {"message", "receipt"}),
        !.batch = IF k = "message" THEN <<tasks[t].mid>> ELSE <<>>,
        !.room = IF k = "invite" THEN @ ELSE mxid[tasks[t].chat],
        !.event = 0, !.noid = 0, !.muted = FALSE]

\* portal.py 637-666: the NotificationDisabler is left after the last
\* message, the rows without a remote id are deleted if messages were
\* replayed (641 is in the `else` of 632), the participants are cached (645)
\* and backfill() returns
BackfillTail(t) ==
    /\ tasks[t].pc \in {"bf_tail", "bf_clean"}
    /\ LET c == tasks[t].chat
       IN /\ backfill_lock' = [backfill_lock EXCEPT ![c] = FALSE]
          /\ create_room_lock' = [create_room_lock EXCEPT ![c] = IF @ = t THEN 0 ELSE @]
          /\ dbMessages' = IF tasks[t].pc = "bf_clean"
                           THEN DeleteAllNoidMsgs(dbMessages, mxid[c])
                           ELSE dbMessages
          /\ SetTask(t, AfterBackfill(t))
    /\ UNCHANGED <<mxid, sent, createCalls, remoteMax, ntasks, insertRejected>>
    /\ UNCHANGED rpcVars
    /\ UNCHANGED registryVars
    /\ UNCHANGED matrixVars
    /\ participants' = [participants EXCEPT ![tasks[t].chat] = RemoteParticipants(tasks[t].chat)]
    /\ UNCHANGED <<receipts, reactions, rct>>
    /\ UNCHANGED mediaVars
    /\ UNCHANGED peopleVars
    /\ UNCHANGED loginVars

\* An exception that leaves backfill().
Uncaught(r, cont) == [r EXCEPT !.pc = "raised", !.err = TRUE]

\* portal.py 618-622: `except Exception` logs what _backfill raised, and
\* backfill() returns to its caller as if it had finished
Caught(r, cont) == cont

\* portal.py 619 (SimpleLock.__exit__) and 637 (NotificationDisabler.__aexit__):
\* a context manager is left on an exception as on a normal exit
ReleasedOnError(locked) == FALSE

\* portal.py 617-641: a step of _backfill raises: get_messages (627),
\* get_max_mid (629), or handle_remote_message for one of the messages (639).
\* The task remembers it: failed is 1 for an exception outside the
\* NotificationDisabler, 2 for one inside.
BackfillRaises(t) ==
    /\ ~tasks[t].live
    /\ tasks[t].pc \in {"bf_fetch", "bf_max", "hrm_check", "hrm_send", "hrm_insert", "bf_raise"}
    /\ LET c == tasks[t].chat
           cont == [AfterBackfill(t) EXCEPT !.muted = ReleasedOnError(tasks[t].muted)]
       IN /\ backfill_lock' = [backfill_lock EXCEPT ![c] = ReleasedOnError(@)]
          /\ create_room_lock' = [create_room_lock EXCEPT ![c] = IF @ = t THEN 0 ELSE @]
          /\ SetTask(t, [Caught(tasks[t], cont) EXCEPT !.failed = IF tasks[t].muted THEN 2 ELSE 1])
    /\ UNCHANGED <<mxid, dbMessages, sent, createCalls, remoteMax, ntasks, insertRejected>>
    /\ UNCHANGED rpcVars
    /\ UNCHANGED registryVars
    /\ UNCHANGED matrixVars
    /\ UNCHANGED receiptVars
    /\ UNCHANGED mediaVars
    /\ UNCHANGED peopleVars
    /\ UNCHANGED loginVars

\* portal.py 407-412: the message of the receipt is looked up
ReceiptCheck(t) ==
    /\ tasks[t].pc = "rr_check"
    /\ IF GetByMid(dbMessages, tasks[t].mid)
       THEN SetTask(t, [tasks[t] EXCEPT !.pc = "rr_apply"])
       ELSE SetTask(t, Finished(tasks[t]))
    /\ UNCHANGED <<mxid, create_room_lock, backfill_lock, dbMessages, sent, createCalls, remoteMax, ntasks, insertRejected>>
    /\ UNCHANGED rpcVars
    /\ UNCHANGED registryVars
    /\ UNCHANGED matrixVars
    /\ UNCHANGED receiptVars
    /\ UNCHANGED mediaVars
    /\ UNCHANGED peopleVars
    /\ UNCHANGED loginVars

\* portal.py 410, 414-453: _handle_receipt has returned
ReceiptApply(t) ==
    /\ tasks[t].pc = "rr_apply"
    /\ SetTask(t, Finished(tasks[t]))
    /\ UNCHANGED <<mxid, create_room_lock, backfill_lock, dbMessages, sent, createCalls, remoteMax, ntasks, insertRejected>>
    /\ UNCHANGED rpcVars
    /\ UNCHANGED registryVars
    /\ UNCHANGED matrixVars
    /\ UNCHANGED receiptVars
    /\ UNCHANGED mediaVars
    /\ UNCHANGED peopleVars
    /\ UNCHANGED loginVars

(***************************************************************************)
(* Login (commands/auth.py, rpc/client.py 113-172).  Attempt a runs one    *)
(* of login_qr, login_email, auto_login; pc is the await it is suspended   *)
(* in.  The transport is connected throughout.                             *)
(***************************************************************************)

SetLogin(a, r) == logins' = [logins EXCEPT ![a] = r]

\* the generator of Client.login is between its first request and its return
SequenceOpen(a) == logins[a].pc \in {"drain", "wait", "item"}

\* A command or an automatic login starts and awaits client.start()
\* (auth.py 36, 169; user.py 122, 239).
StartLogin(kind) ==
    /\ nlogins < MaxLogins
    /\ nlogins' = nlogins + 1
    /\ SetLogin(nlogins + 1, [NoLogin EXCEPT !.kind = kind, !.pc = "start"])
    /\ UNCHANGED <<command_status, loginEvents>>
    /\ UNCHANGED <<rpcVars, portalVars>>

\* client.py 114-152: Client.login up to the await in _raw_request("login"):
\* the watcher task is created and the login request written
BeginLogin(r) == [r EXCEPT !.pc = "drain", !.watcher = "polling", !.future = "pending"]

\* An attempt that is over: the coroutine and its generator are gone; what the
\* watcher did is kept for the record.
EndLogin(r) == [NoLogin EXCEPT !.pc = "done", !.watcher = r.watcher, !.cancels = r.cancels]

\* auth.py 37-55, then 133-136 (login_qr) or 151-153 (login_email): start()
\* has returned.  Logged in, or a command active: a reply, and the attempt
\* is over.  Else the marker is set in the same step as it was tested;
\* login_qr goes on to Client.login at once, login_email first awaits a reply.
LoginPrep(a, is_logged_in) ==
    /\ logins[a].pc = "start"
    /\ logins[a].kind \in {"qr", "email"}
    /\ IF is_logged_in \/ command_status # "none"
       THEN /\ SetLogin(a, EndLogin(logins[a]))
            /\ UNCHANGED command_status
       ELSE /\ command_status' = "login"
            /\ IF logins[a].kind = "qr"
               THEN SetLogin(a, BeginLogin(logins[a]))
               ELSE SetLogin(a, [logins[a] EXCEPT !.pc = "reply"])
    /\ UNCHANGED <<nlogins, loginEvents>>
    /\ UNCHANGED <<rpcVars, portalVars>>

\* auth.py 153-162, client.py 114: the reply is sent and Client.login starts;
\* with the marker cleared meanwhile, command_status["login_type"] raises
\* TypeError, which ends the command.
EmailBegin(a) ==
    /\ logins[a].pc = "reply"
    /\ IF command_status = "none"
       THEN SetLogin(a, EndLogin(logins[a]))
       ELSE SetLogin(a, BeginLogin(logins[a]))
    /\ UNCHANGED <<command_status, nlogins, loginEvents>>
    /\ UNCHANGED <<rpcVars, portalVars>>

\* auth.py 169-174: start() has returned; logged in or a command active ends
\* the attempt, else the stored credentials are fetched
AutoStart(a, is_logged_in) ==
    /\ logins[a].pc = "start"
    /\ logins[a].kind = "auto"
    /\ IF is_logged_in \/ command_status # "none"
       THEN SetLogin(a, EndLogin(logins[a]))
       ELSE SetLogin(a, [logins[a] EXCEPT !.pc = "creds"])
    /\ UNCHANGED <<command_status, nlogins, loginEvents>>
    /\ UNCHANGED <<rpcVars, portalVars>>

\* auth.py 174-188 and 73-78: the credentials have arrived.  Without any the
\* attempt is over; with them the marker is set and _login_do is called,
\* which returns at once when the user has no notice room.
AutoCreds(a, has_creds, has_notice_room) ==
    /\ logins[a].pc = "creds"
    /\ IF ~has_creds
       THEN /\ SetLogin(a, EndLogin(logins[a]))
            /\ UNCHANGED command_status
       ELSE /\ command_status' = "login"
            /\ IF has_notice_room
               THEN SetLogin(a, BeginLogin(logins[a]))
               ELSE SetLogin(a, EndLogin(logins[a]))
    /\ UNCHANGED <<nlogins, loginEvents>>
    /\ UNCHANGED <<rpcVars, portalVars>>

\* client.py 152-161: the request is written; the done-callback and the four
\* event handlers are registered, and the generator waits for its event
Registered(a) ==
    /\ logins[a].pc = "drain"
    /\ SetLogin(a, [logins[a] EXCEPT !.pc = "wait", !.handlers = TRUE])
    /\ UNCHANGED <<command_status, nlogins, loginEvents>>
    /\ UNCHANGED <<rpcVars, portalVars>>

\* client.py 119-133: the remote side sends a login event; the handler of
\* every open sequence appends it to its deque and sets its event
RemoteLoginEvent(e) ==
    /\ loginEvents < MaxLoginEvents
    /\ \E a \in Logins : logins[a].handlers
    /\ loginEvents' = loginEvents + 1
    /\ logins' = [a \in Logins |->
                    IF logins[a].handlers
                    THEN [logins[a] EXCEPT !.data = Append(@, e), !.handled = Append(@, e)]
                    ELSE logins[a]]
    /\ UNCHANGED <<command_status, nlogins>>
    /\ UNCHANGED <<rpcVars, portalVars>>

\* client.py 144-150: the login request is answered and login_handler runs:
\* the watcher is cancelled, an error response is queued as an item, then
\* the end marker
LoginResponse(a, ok) ==
    /\ logins[a].pc \in {"wait", "item"}
    /\ logins[a].future = "pending"
    /\ SetLogin(a, [logins[a] EXCEPT
           !.future = "done",
           !.watcher = IF @ = "polling" THEN "cancelled" ELSE @,
           !.data = IF ok THEN Append(@, "end") ELSE Append(Append(@, "error"), "end"),
           !.handled = IF ok THEN @ ELSE Append(@, "error")])
    /\ UNCHANGED <<command_status, nlogins, loginEvents>>
    /\ UNCHANGED <<rpcVars, portalVars>>

\* client.py 160-172 with auth.py 80-128, from the point where the generator
\* looks at its deque: empty, it clears the event and waits; the end marker
\* makes it return (the handlers are removed) and _login_do finishes, with
\* success if nothing failed and the marker is still set, else by clearing
\* the marker; any other item is yielded and _login_do posts it to the room.
TakeItem(a) ==
    LET r == logins[a] IN
    IF r.data = <<>>
    THEN /\ SetLogin(a, [r EXCEPT !.pc = "wait"])
         /\ UNCHANGED command_status
    ELSE IF Head(r.data) = "end"
    THEN IF ~r.failure /\ command_status # "none"
         THEN /\ SetLogin(a, [r EXCEPT !.pc = "sync", !.data = Tail(@), !.handlers = FALSE])
              /\ UNCHANGED command_status
         ELSE /\ SetLogin(a, EndLogin(r))
              /\ command_status' = "none"
    ELSE /\ SetLogin(a, [r EXCEPT !.pc = "item", !.data = Tail(@),
                                  !.yielded = Append(@, Head(r.data)),
                                  !.failure = (@ \/ Head(r.data) \in {"login_failure", "error"})])
         /\ UNCHANGED command_status

\* client.py 161-166: the event is set and the generator wakes up
GenWake(a) ==
    /\ logins[a].pc = "wait"
    /\ logins[a].data # <<>>
    /\ TakeItem(a)
    /\ UNCHANGED <<nlogins, loginEvents>>
    /\ UNCHANGED <<rpcVars, portalVars>>

\* auth.py 81-119, then client.py 162-167: _login_do has posted the item and
\* asks the generator for the next one
ItemDone(a) ==
    /\ logins[a].pc = "item"
    /\ TakeItem(a)
    /\ UNCHANGED <<nlogins, loginEvents>>
    /\ UNCHANGED <<rpcVars, portalVars>>

\* auth.py 124-128: the notice is sent and the sync done; the marker is cleared
LoginSynced(a) ==
    /\ logins[a].pc = "sync"
    /\ SetLogin(a, EndLogin(logins[a]))
    /\ command_status' = "none"
    /\ UNCHANGED <<nlogins, loginEvents>>
    /\ UNCHANGED <<rpcVars, portalVars>>

\* client.py 137-139: the watcher wakes up and looks at the marker: set, it
\* sleeps for another second; cleared, it sends cancel_login and ends.
\* `missed` records a look that found the marker set after it had been cleared.
WatcherCheck(a) ==
    /\ logins[a].watcher = "polling"
    /\ IF command_status = "none"
       THEN SetLogin(a, [logins[a] EXCEPT !.watcher = "sent", !.cancels = @ + 1])
       ELSE SetLogin(a, [logins[a] EXCEPT !.missed = (@ \/ logins[a].cleared)])
    /\ UNCHANGED <<command_status, nlogins, loginEvents>>
    /\ UNCHANGED <<rpcVars, portalVars>>

\* The user's `cancel` command (auth.py 44-46) clears the marker; every
\* sequence whose login request is still pending has had it cleared externally.
CancelCommand ==
    /\ command_status = "login"
    /\ command_status' = "none"
    /\ logins' = [a \in Logins |->
                    IF SequenceOpen(a) /\ logins[a].future = "pending"
                    THEN [logins[a] EXCEPT !.cleared = TRUE]
                    ELSE logins[a]]
    /\ UNCHANGED <<nlogins, loginEvents>>
    /\ UNCHANGED <<rpcVars, portalVars>>

Init == RpcInit /\ PortalInit /\ LoginInit

Next ==
    \/ ConnectBegin
    \/ ConnectEnd
    \/ Request
    \/ RequestFails
    \/ Disconnect
    \/ \E k \in 1..MaxConn, why \in InvalidKinds : RecvInvalid(k, why)
    \/ \E k \in 1..MaxConn, id \in Bids, s \in BOOLEAN : RecvBroadcast(k, id, s)
    \/ \E k \in 1..MaxConn, id \in ReqIds, cmd \in ResponseCommands : RecvResponse(k, id, cmd)
    \/ \E k \in 1..MaxConn : ReadEofAtCheck(k)
    \/ \E k \in 1..MaxConn : ReadEofInReaduntil(k)
    \/ \E t \in evTasks : RunEventTask(t)
    \/ \E t \in evTasks : EventTaskDone(t)
    \/ \E c \in 1..MaxConn : CommandLoopGet(c)
    \/ \E c \in 1..MaxConn : CommandLoopDone(c)

Spec == Init /\ [][Next]_vars

\* The transport when the peer only answers requests: the same actions, without
\* the broadcast frames and their handlers.
RequestNext ==
    \/ ConnectBegin
    \/ ConnectEnd
    \/ Request
    \/ RequestFails
    \/ Disconnect
    \/ \E k \in 1..MaxConn, why \in InvalidKinds : RecvInvalid(k, why)
    \/ \E k \in 1..MaxConn, id \in ReqIds, cmd \in ResponseCommands : RecvResponse(k, id, cmd)
    \/ \E k \in 1..MaxConn : ReadEofAtCheck(k)
    \/ \E k \in 1..MaxConn : ReadEofInReaduntil(k)

RequestSpec == Init /\ [][RequestNext]_vars

\* The transport of a caller that connects once: every kind of frame, the
\* event tasks and the command loop, on a single connection. The peer numbers
\* its broadcasts downwards without gaps: a broadcast carries an id it has
\* sent before or the next id below those.
FrameNext ==
    \/ connCount = 0 /\ connecting = 0 /\ ConnectBegin
    \/ ConnectEnd
    \/ Request
    \/ RequestFails
    \/ \E k \in 1..MaxConn, why \in InvalidKinds : RecvInvalid(k, why)
    \/ \E k \in 1..MaxConn, id \in Bids, s \in BOOLEAN :
          id >= lowest - 1 /\ RecvBroadcast(k, id, s)
    \/ \E k \in 1..MaxConn, id \in ReqIds, cmd \in ResponseCommands : RecvResponse(k, id, cmd)
    \/ \E k \in 1..MaxConn : ReadEofAtCheck(k)
    \/ \E k \in 1..MaxConn : ReadEofInReaduntil(k)
    \/ \E t \in evTasks : RunEventTask(t)
    \/ \E t \in evTasks : EventTaskDone(t)
    \/ \E c \in 1..MaxConn : CommandLoopGet(c)
    \/ \E c \in 1..MaxConn : CommandLoopDone(c)

FrameSpec == Init /\ [][FrameNext]_vars

\* matrix.py 151-160, portal.py 193-198, 815-818, db/upgrade.py 83-93, 98-107,
\* 158-166 (the rows of the chat's receipts and reactions go with it): the
\* platform user left the room of a conversation no trigger is working on.
\* The conversation is taken out of both registries and its row is deleted,
\* and with the row the message records of the chat; the room id goes with
\* the record.
LeavePortal(c) ==
    /\ mxid[c] # 0
    /\ c \notin deleted
    /\ \A t \in Tasks : tasks[t].chat = c => tasks[t].pc \in {"done", "raised"}
    /\ mxid' = [mxid EXCEPT ![c] = 0]
    /\ by_mxid' = by_mxid \ {mxid[c]}
    /\ portals' = portals \ {c}
    /\ deleted' = deleted \cup {c}
    /\ dbMessages' = {r \in dbMessages : r.chat_id # c}
    /\ UNCHANGED <<create_room_lock, backfill_lock, sent, createCalls, remoteMax, tasks, ntasks, insertRejected>>
    /\ UNCHANGED rpcVars
    /\ UNCHANGED matrixVars
    /\ receipts' = {r \in receipts : r.chat_id # c}
    /\ reactions' = {r \in reactions : r.mx_room # mxid[c]}
    /\ UNCHANGED <<participants, rct>>
    /\ UNCHANGED mediaVars
    /\ UNCHANGED peopleVars
    /\ UNCHANGED loginVars

PortalNext ==
    \/ \E c \in Chats, m \in Mids : SpawnMessage(c, m)
    \/ \E c \in Chats, m \in Mids : SpawnReceipt(c, m)
    \/ \E c \in Chats : SpawnSync(c)
    \/ \E c \in Chats : SpawnInvite(c)
    \/ \E c \in Chats : RemoteMessage(c)
    \/ \E t \in Tasks : MessageLookup(t)
    \/ \E t \in Tasks : ReceiptLookup(t)
    \/ \E t \in Tasks : SyncLookup(t)
    \/ \E t \in Tasks : InviteLookup(t)
    \/ \E t \in Tasks : InviteExisting(t)
    \/ \E t \in Tasks : InviteSave(t)
    \/ \E t \in Tasks : Prep(t)
    \/ \E t \in Tasks : LockWait(t)
    \/ \E t \in Tasks : CreateInfo(t)
    \/ \E t \in Tasks : Creating(t)
    \/ \E t \in Tasks : CreateFails(t)
    \/ \E t \in Tasks : Update(t)
    \/ \E t \in Tasks : BackfillFetch(t)
    \/ \E t \in Tasks : BackfillMax(t)
    \/ \E t \in Tasks : HrmCheck(t)
    \/ \E t \in Tasks : HrmSend(t)
    \/ \E t \in Tasks : HrmInsert(t)
    \/ \E t \in Tasks : BackfillTail(t)
    \/ \E t \in Tasks : ReceiptCheck(t)
    \/ \E t \in Tasks : ReceiptApply(t)

PortalSpec == Init /\ [][PortalNext]_vars

\* The deliveries of inbound messages alone: live "message" events, and the
\* replays of the backfills that the events without a room set off. An event
\* carries a message the remote history holds already, or the next one.
IngestNext ==
    \/ \E c \in Chats, m \in Mids : m <= remoteMax[c] + 1 /\ SpawnMessage(c, m)
    \/ \E t \in Tasks : MessageLookup(t)
    \/ \E t \in Tasks : Prep(t)
    \/ \E t \in Tasks : LockWait(t)
    \/ \E t \in Tasks : CreateInfo(t)
    \/ \E t \in Tasks : Creating(t)
    \/ \E t \in Tasks : Update(t)
    \/ \E t \in Tasks : BackfillFetch(t)
    \/ \E t \in Tasks : BackfillMax(t)
    \/ \E t \in Tasks : HrmCheck(t)
    \/ \E t \in Tasks : HrmSend(t)
    \/ \E t \in Tasks : HrmInsert(t)
    \/ \E t \in Tasks : BackfillTail(t)

IngestSpec == Init /\ [][IngestNext]_vars

\* The syncs of the chat list (user.py 153-167), each of which creates or
\* updates the room of a chat, while create_room may return no room id.
CreateNext ==
    \/ \E c \in Chats : SpawnSync(c)
    \/ \E c \in Chats : RemoteMessage(c)
    \/ \E t \in Tasks : SyncLookup(t)
    \/ \E t \in Tasks : Prep(t)
    \/ \E t \in Tasks : LockWait(t)
    \/ \E t \in Tasks : CreateInfo(t)
    \/ \E t \in Tasks : Creating(t)
    \/ \E t \in Tasks : CreateFails(t)
    \/ \E t \in Tasks : Update(t)
    \/ \E t \in Tasks : BackfillFetch(t)
    \/ \E t \in Tasks : BackfillMax(t)
    \/ \E t \in Tasks : HrmCheck(t)
    \/ \E t \in Tasks : HrmSend(t)
    \/ \E t \in Tasks : HrmInsert(t)
    \/ \E t \in Tasks : BackfillTail(t)

CreateSpec == Init /\ [][CreateNext]_vars

\* user.py 84-88: without a client the answer is the client itself (None);
\* when connect() or the start request raises, the exception is swallowed
\* and the answer is False; else it is what the remote side reports.
IsLoggedIn(has_client, reachable, logged_in) ==
    IF ~has_client THEN FALSE
    ELSE IF ~reachable THEN FALSE
    ELSE logged_in

\* The guard that lets echoes through.
IgnoredWhenLoggedOut(logged, echo) == ~logged

\* portal.py 139-146: the two early returns of handle_matrix_message
Ignored(logged, echo) == ~logged \/ echo

\* portal.py 137-174: a platform message of a room reaches
\* handle_matrix_message. A sender that is not logged in and an echo of the
\* puppet end the handler (139-146); a text or media message is sent with
\* send or send_file (154, 171); any other type reaches line 179 with
\* message_id unbound: it deletes the rows without a remote id (177) and
\* ends with an exception.
MatrixMessage(c, has_client, reachable, logged_in, echo, msgtype, reports) ==
    /\ mxid[c] # 0
    /\ mxMsg.pc \in {"idle", "done", "raised"}
    /\ mxMsg.event < MaxMatrixMsgs
    /\ LET logged == IsLoggedIn(has_client, reachable, logged_in)
           goes == ~Ignored(logged, echo) /\ msgtype \in {"text", "media"}
       IN /\ mxMsg' = [pc |-> IF goes THEN "sending" ELSE "done",
                       event |-> mxMsg.event + 1, chat |-> c, msgtype |-> msgtype,
                       client |-> has_client, reachable |-> reachable,
                       logged |-> logged, echo |-> echo, reports |-> reports,
                       stored |-> FALSE, noticed |-> FALSE]
          /\ remoteSends' = IF goes THEN remoteSends + 1 ELSE remoteSends
          /\ dbMessages' = IF ~Ignored(logged, echo) /\ ~goes
                           THEN DeleteAllNoidMsgs(dbMessages, mxid[c])
                           ELSE dbMessages
    /\ UNCHANGED notices
    /\ UNCHANGED <<mxid, create_room_lock, backfill_lock, sent, createCalls, remoteMax, tasks, ntasks, insertRejected>>
    /\ UNCHANGED rpcVars
    /\ UNCHANGED receiptVars
    /\ UNCHANGED mediaVars
    /\ UNCHANGED registryVars
    /\ UNCHANGED peopleVars
    /\ UNCHANGED loginVars

\* portal.py 154-157, 171-174, 177-191: the request is answered with the id
\* of the message (message_id > 0) or with an error (message_id = -1). The
\* rows without a remote id are deleted (177). With
\* an id the record is inserted; msg is bound before insert(), so a rejected
\* insert posts no notice. Without an id the notice is posted when
\* bridge.delivery_error_reports is set.
MatrixSendResult(message_id) ==
    /\ mxMsg.pc = "sending"
    /\ LET c == mxMsg.chat
           rec == [mxid |-> 0 - mxMsg.event, mx_room |-> mxid[c],
                   mid |-> message_id, chat_id |-> c, is_outgoing |-> TRUE]
           noticed == message_id = -1 /\ mxMsg.reports
           cleaned == DeleteAllNoidMsgs(dbMessages, mxid[c])
       IN /\ dbMessages' = IF message_id # -1 THEN InsertMessage(cleaned, rec)
                           ELSE cleaned
          /\ notices' = IF noticed THEN notices + 1 ELSE notices
          /\ mxMsg' = [mxMsg EXCEPT !.pc = "done",
                                    !.stored = (rec \in dbMessages'),
                                    !.noticed = noticed]
    /\ UNCHANGED remoteSends
    /\ UNCHANGED <<mxid, create_room_lock, backfill_lock, sent, createCalls, remoteMax, tasks, ntasks, insertRejected>>
    /\ UNCHANGED rpcVars
    /\ UNCHANGED receiptVars
    /\ UNCHANGED mediaVars
    /\ UNCHANGED registryVars
    /\ UNCHANGED peopleVars
    /\ UNCHANGED loginVars

\* portal.py 153-157, 170-174, rpc.py 173-185: the send request ends with an
\* exception that is not an RPCError (the writer is gone, drain() fails on a
\* closed connection, the answer has no "id"); only RPCError is caught, so
\* the exception leaves handle_matrix_message.
MatrixSendRaises ==
    /\ mxMsg.pc = "sending"
    /\ mxMsg' = [mxMsg EXCEPT !.pc = "raised"]
    /\ UNCHANGED <<remoteSends, notices>>
    /\ UNCHANGED <<mxid, create_room_lock, backfill_lock, dbMessages, sent, createCalls, remoteMax, tasks, ntasks, insertRejected>>
    /\ UNCHANGED rpcVars
    /\ UNCHANGED receiptVars
    /\ UNCHANGED mediaVars
    /\ UNCHANGED registryVars
    /\ UNCHANGED peopleVars
    /\ UNCHANGED loginVars

\* db/receipt.py 46-50: the message id stored for a read count of the chat,
\* with the `or 0` of portal.py 420
ReceiptGetMaxMid(table, c, n) ==
    LET rows == {r \in table : r.chat_id = c /\ r.num_read = n} IN
    IF rows = {} THEN 0 ELSE (CHOOSE r \in rows : TRUE).mid

\* db/receipt.py 33-44: the row of (chat, count) is inserted or overwritten
\* with the new message id, then the rows of the chat with a lower message id
\* and a lower count are deleted
ReceiptUpsert(table, m, c, n) ==
    LET upserted == {r \in table : ~(r.chat_id = c /\ r.num_read = n)}
                        \cup {[mid |-> m, chat_id |-> c, num_read |-> n]}
    IN {r \in upserted : ~(r.chat_id = c /\ r.mid < m /\ r.num_read < n)}

\* DBMessage.get_all_since (called at portal.py 421): the messages of the
\* chat after the previous receipt of this count, up to the receipted one
GetAllSince(table, c, min_mid, max_mid) ==
    {r \in table : r.chat_id = c /\ min_mid < r.mid /\ r.mid <= max_mid}

\* portal.py 433: the count has reached the size of the cached participant
\* set less one
IsFullyRead(cached, count) == count >= Cardinality(cached) - 1

\* user.py 224-230, portal.py 407-453: a "receipt" event for a chat that has a
\* room, handled from handle_remote_receipt to the end of _handle_receipt.
\* Without a record of the message nothing is done. In a direct chat the
\* main puppet sends a native receipt. Else the reactions on the messages
\* since the previous receipt of this count are redacted; a fully read
\* message gets a native receipt from every cached participant that is not
\* an own puppet, any other count a "Read by" reaction on each outgoing
\* message since. Then the receipt row is upserted.
HandleReceipt(c, m, count) ==
    /\ mxid[c] # 0
    /\ rct.n < MaxReceipts
    /\ IF ~\E r \in dbMessages : r.mid = m
       THEN /\ rct' = [n |-> rct.n + 1, chat |-> c, mid |-> m, count |-> count, natives |-> {}]
            /\ UNCHANGED <<receipts, reactions>>
       ELSE LET since == GetAllSince(dbMessages, c, ReceiptGetMaxMid(receipts, c, count), m)
                kept == {x \in reactions :
                           ~\E r \in since : x.relates_to = r.mxid /\ x.mx_room = mxid[c]}
                full == IsFullyRead(participants[c], count)
            IN /\ reactions' =
                    IF IsDirect(c) THEN reactions
                    ELSE IF full THEN kept
                    ELSE kept \cup {[mx_room |-> mxid[c], relates_to |-> r.mxid, num_read |-> count] :
                                       r \in {x \in since : x.is_outgoing}}
               /\ rct' = [n |-> rct.n + 1, chat |-> c, mid |-> m, count |-> count,
                          natives |-> IF IsDirect(c) THEN {"main"}
                                      ELSE IF full THEN {w \in participants[c] : ~IsOwn(w)}
                                      ELSE {}]
               /\ receipts' = ReceiptUpsert(receipts, m, c, count)
    /\ UNCHANGED participants
    /\ UNCHANGED mediaVars
    /\ UNCHANGED <<mxid, create_room_lock, backfill_lock, dbMessages, sent, createCalls, remoteMax, tasks, ntasks, insertRejected>>
    /\ UNCHANGED rpcVars
    /\ UNCHANGED registryVars
    /\ UNCHANGED matrixVars
    /\ UNCHANGED peopleVars
    /\ UNCHANGED loginVars

\* portal.py 70-81, 59-60: the bridge is started again while nothing is in
\* progress. The database is kept; every Portal object is built anew, with
\* an empty participant cache, and the by-room index is empty until a room
\* is looked up.
Restart ==
    /\ \A t \in Tasks : tasks[t].pc \in {"idle", "done", "raised"}
    /\ mxMsg.pc # "sending"
    /\ \E c \in AllChats : participants[c] # {}
    /\ participants' = [c \in AllChats |-> {}]
    /\ by_mxid' = {}
    /\ UNCHANGED <<portals, deleted>>
    /\ UNCHANGED <<receipts, reactions, rct>>
    /\ UNCHANGED mediaVars
    /\ UNCHANGED <<mxid, create_room_lock, backfill_lock, dbMessages, sent, createCalls, remoteMax, tasks, ntasks, insertRejected>>
    /\ UNCHANGED rpcVars
    /\ UNCHANGED matrixVars
    /\ UNCHANGED peopleVars
    /\ UNCHANGED loginVars

(***************************************************************************)
(* Deduplicated media: Portal._handle_remote_media (portal.py 455-478),    *)
(* one action per await.  A call is made with deduplicate set for stickers *)
(* of an unencrypted room (portal.py 282-284) and for inline emoji (363).  *)
(***************************************************************************)

SetCall(n, r) == mcalls' = [mcalls EXCEPT ![n] = r]

\* db/media.py 43-50: the stored reference of this key, 0 when there is no row
MediaGetById(table, key) ==
    IF \E r \in table : r.media_id = key
    THEN (CHOOSE r \in table : r.media_id = key).mxc
    ELSE 0

\* portal.py 455-460: the call starts; with deduplicate it queries the media
\* table, without it goes straight to the download (462-465)
MediaCall(key, deduplicate) ==
    /\ nmcalls < MaxMediaCalls
    /\ nmcalls' = nmcalls + 1
    /\ SetCall(nmcalls + 1, [NoMediaCall EXCEPT !.key = key, !.dedup = deduplicate,
                                                !.pc = IF deduplicate THEN "get" ELSE "read"])
    /\ UNCHANGED <<media, uploads>>
    /\ UNCHANGED <<mxid, create_room_lock, backfill_lock, dbMessages, sent, createCalls, remoteMax, tasks, ntasks, insertRejected>>
    /\ UNCHANGED rpcVars
    /\ UNCHANGED registryVars
    /\ UNCHANGED matrixVars
    /\ UNCHANGED receiptVars
    /\ UNCHANGED peopleVars
    /\ UNCHANGED loginVars

\* portal.py 460-465, 476-478: get_by_id returned; a stored reference is
\* returned at once, otherwise read_image is requested
MediaLookup(n) ==
    /\ mcalls[n].pc = "get"
    /\ LET found == MediaGetById(media, mcalls[n].key) IN
       IF found # 0
       THEN SetCall(n, [mcalls[n] EXCEPT !.pc = "done", !.mxc = found])
       ELSE SetCall(n, [mcalls[n] EXCEPT !.pc = "read"])
    /\ UNCHANGED <<media, nmcalls, uploads>>
    /\ UNCHANGED <<mxid, create_room_lock, backfill_lock, dbMessages, sent, createCalls, remoteMax, tasks, ntasks, insertRejected>>
    /\ UNCHANGED rpcVars
    /\ UNCHANGED registryVars
    /\ UNCHANGED matrixVars
    /\ UNCHANGED receiptVars
    /\ UNCHANGED peopleVars
    /\ UNCHANGED loginVars

\* portal.py 464-469: read_image returned the data and upload_media is
\* requested (portal.py 497), or it raised RPCError and None is returned
MediaRead(n, ok) ==
    /\ mcalls[n].pc = "read"
    /\ IF ok
       THEN SetCall(n, [mcalls[n] EXCEPT !.pc = "upload"])
       ELSE SetCall(n, [mcalls[n] EXCEPT !.pc = "failed"])
    /\ UNCHANGED <<media, nmcalls, uploads>>
    /\ UNCHANGED <<mxid, create_room_lock, backfill_lock, dbMessages, sent, createCalls, remoteMax, tasks, ntasks, insertRejected>>
    /\ UNCHANGED rpcVars
    /\ UNCHANGED registryVars
    /\ UNCHANGED matrixVars
    /\ UNCHANGED receiptVars
    /\ UNCHANGED peopleVars
    /\ UNCHANGED loginVars

\* portal.py 469-475, 497-506: upload_media returned a new content
\* reference; with deduplicate the row is inserted, otherwise the call returns
MediaUpload(n) ==
    /\ mcalls[n].pc = "upload"
    /\ uploads' = uploads + 1
    /\ SetCall(n, [mcalls[n] EXCEPT !.mxc = uploads + 1,
                                    !.pc = IF mcalls[n].dedup THEN "insert" ELSE "done"])
    /\ UNCHANGED <<media, nmcalls>>
    /\ UNCHANGED <<mxid, create_room_lock, backfill_lock, dbMessages, sent, createCalls, remoteMax, tasks, ntasks, insertRejected>>
    /\ UNCHANGED rpcVars
    /\ UNCHANGED registryVars
    /\ UNCHANGED matrixVars
    /\ UNCHANGED receiptVars
    /\ UNCHANGED peopleVars
    /\ UNCHANGED loginVars

\* portal.py 470-475 with db/media.py 33-36 and the PRIMARY KEY of
\* db/upgrade.py 67-70: the insert adds the row, or raises because the key
\* has a row; nothing catches that here
MediaInsert(n) ==
    /\ mcalls[n].pc = "insert"
    /\ IF MediaGetById(media, mcalls[n].key) # 0
       THEN /\ SetCall(n, [mcalls[n] EXCEPT !.pc = "raised"])
            /\ UNCHANGED media
       ELSE /\ SetCall(n, [mcalls[n] EXCEPT !.pc = "done"])
            /\ media' = media \cup {[media_id |-> mcalls[n].key, mxc |-> mcalls[n].mxc]}
    /\ UNCHANGED <<nmcalls, uploads>>
    /\ UNCHANGED <<mxid, create_room_lock, backfill_lock, dbMessages, sent, createCalls, remoteMax, tasks, ntasks, insertRejected>>
    /\ UNCHANGED rpcVars
    /\ UNCHANGED registryVars
    /\ UNCHANGED matrixVars
    /\ UNCHANGED receiptVars
    /\ UNCHANGED peopleVars
    /\ UNCHANGED loginVars

\* Rows without a remote id: one chat of each kind, message events with and
\* without a remote id, sync passes, failing backfills, and platform messages.
PlaceholderNext ==
    \/ \E c \in AllChats, bare \in BOOLEAN : SpawnPreview(c, bare)
    \/ \E c \in AllChats, m \in Mids : SpawnMessage(c, m)
    \/ \E c \in AllChats : SpawnSync(c)
    \/ \E t \in Tasks : MessageLookup(t)
    \/ \E t \in Tasks : SyncLookup(t)
    \/ \E t \in Tasks : Prep(t)
    \/ \E t \in Tasks : LockWait(t)
    \/ \E t \in Tasks : CreateInfo(t)
    \/ \E t \in Tasks : Creating(t)
    \/ \E t \in Tasks : Update(t)
    \/ \E t \in Tasks : BackfillFetch(t)
    \/ \E t \in Tasks : BackfillMax(t)
    \/ \E t \in Tasks : HrmCheck(t)
    \/ \E t \in Tasks : HrmSend(t)
    \/ \E t \in Tasks : HrmInsert(t)
    \/ \E t \in Tasks : BackfillTail(t)
    \/ \E t \in Tasks : tasks[t].pc = "bf_raise" /\ BackfillRaises(t)
    \/ \E c \in AllChats : mxMsg.event = 0 /\ MatrixMessage(c, TRUE, TRUE, TRUE, FALSE, "text", FALSE)
    \/ \E message_id \in {-1} : MatrixSendResult(message_id)

PlaceholderSpec == Init /\ [][PlaceholderNext]_vars

\* Failing backfills: message events of one chat of each kind, whose
\* backfills may raise at any step. The events of one chat are handled one
\* after the other, those of different chats side by side.
BackfillNext ==
    \/ \E c \in AllChats, m \in Mids :
          /\ \A u \in Tasks : tasks[u].chat = c => tasks[u].pc \in {"idle", "done"}
          /\ SpawnMessage(c, m)
    \/ \E t \in Tasks : MessageLookup(t)
    \/ \E t \in Tasks : Prep(t)
    \/ \E t \in Tasks : CreateInfo(t)
    \/ \E t \in Tasks : Creating(t)
    \/ \E t \in Tasks : BackfillFetch(t)
    \/ \E t \in Tasks : BackfillMax(t)
    \/ \E t \in Tasks : HrmCheck(t)
    \/ \E t \in Tasks : HrmSend(t)
    \/ \E t \in Tasks : HrmInsert(t)
    \/ \E t \in Tasks : BackfillTail(t)
    \/ \E t \in Tasks : BackfillRaises(t)

BackfillSpec == Init /\ [][BackfillNext]_vars

\* Two chats whose messages carry the same remote ids: message events of one
\* chat of each kind, handled one after the other within a chat, and one
\* receipt event.
CrossChatNext ==
    \/ \E c \in AllChats, m \in Mids :
          /\ \A u \in Tasks : tasks[u].chat = c => tasks[u].pc \in {"idle", "done"}
          /\ SpawnMessage(c, m)
    \/ \E t \in Tasks : MessageLookup(t)
    \/ \E t \in Tasks : Prep(t)
    \/ \E t \in Tasks : CreateInfo(t)
    \/ \E t \in Tasks : Creating(t)
    \/ \E t \in Tasks : BackfillFetch(t)
    \/ \E t \in Tasks : BackfillMax(t)
    \/ \E t \in Tasks : HrmCheck(t)
    \/ \E t \in Tasks : HrmSend(t)
    \/ \E t \in Tasks : HrmInsert(t)
    \/ \E t \in Tasks : BackfillTail(t)
    \/ \E c \in AllChats, m \in Mids, count \in Counts :
          rct.n = 0 /\ HandleReceipt(c, m, count)

CrossChatSpec == Init /\ [][CrossChatNext]_vars

(***************************************************************************)
(* Profiles: the display name and avatar of a puppet (puppet.py 66-119)    *)
(* and the icon of a portal that has a room (portal.py 540-570).  An update *)
(* is one action; whether the image can be fetched and uploaded and        *)
(* whether the platform accepts the change are its inputs.  "" stands for  *)
(* None, and the content reference of an image is written as its path.     *)
(***************************************************************************)

\* everything but the profiles
NoProfileVars == <<rpcVars, loginVars, registryVars, matrixVars, receiptVars, mediaVars,
                   mxid, create_room_lock, backfill_lock, dbMessages, sent, createCalls,
                   remoteMax, tasks, ntasks, insertRejected, chatVars, passVars>>

\* puppet.py 73-84: _update_name
PuppetUpdateName(name, ok) ==
    /\ IF name # profile.name \/ ~profile.name_set
       THEN /\ profile' = [profile EXCEPT !.name = name, !.name_set = ok]
            /\ shown' = [shown EXCEPT !.displayname = IF ok THEN name ELSE @]
       ELSE UNCHANGED <<profile, shown>>
    /\ UNCHANGED <<icon, identityVars>>
    /\ UNCHANGED NoProfileVars

\* puppet.py 86-119: _update_avatar for an avatar with this path. read_image
\* and upload_media are awaited outside any `try` (107-108): when they raise,
\* the method is left after line 105.
PuppetUpdateAvatar(path, fetch_ok, set_ok) ==
    /\ IF ~profile.avatar_set \/ path # profile.avatar_path
       THEN IF path # "" /\ ~fetch_ok
            THEN /\ profile' = [profile EXCEPT !.avatar_path = path]
                 /\ UNCHANGED shown
            ELSE /\ profile' = [profile EXCEPT !.avatar_path = path, !.avatar_mxc = path,
                                               !.avatar_set = set_ok]
                 /\ shown' = [shown EXCEPT !.avatar = IF set_ok THEN path ELSE @]
       ELSE UNCHANGED <<profile, shown>>
    /\ UNCHANGED <<icon, identityVars>>
    /\ UNCHANGED NoProfileVars

\* portal.py 540-570: _update_icon for an icon with this path. read_image and
\* upload_media can raise after line 554; a failure of set_room_avatar is
\* logged (563-566)
PortalUpdateIcon(path, fetch_ok, set_ok) ==
    /\ IF path # icon.icon_path
       THEN IF path # "" /\ ~fetch_ok
            THEN /\ icon' = [icon EXCEPT !.icon_path = path]
                 /\ UNCHANGED shown
            ELSE /\ icon' = [icon_path |-> path, icon_mxc |-> path]
                 /\ shown' = [shown EXCEPT !.room_avatar = IF set_ok THEN path ELSE @]
       ELSE UNCHANGED <<icon, shown>>
    /\ UNCHANGED <<profile, identityVars>>
    /\ UNCHANGED NoProfileVars

ProfileNext ==
    \/ \E name \in {"n1", "n2"}, ok \in BOOLEAN : PuppetUpdateName(name, ok)
    \/ \E path \in {"", "a1", "a2"}, fetch_ok, set_ok \in BOOLEAN : PuppetUpdateAvatar(path, fetch_ok, set_ok)
    \/ \E path \in {"", "a1", "a2"}, fetch_ok, set_ok \in BOOLEAN : PortalUpdateIcon(path, fetch_ok, set_ok)

ProfileSpec == Init /\ [][ProfileNext]_vars

(***************************************************************************)
(* Identities: Puppet.get_by_mid (puppet.py 142-164), one action per await. *)
(***************************************************************************)

\* puppet.py 143-150: the call starts; a cached Puppet is returned, otherwise
\* the puppet table is queried
ResolveBegin(mid) ==
    /\ nresolves < MaxResolves
    /\ nresolves' = nresolves + 1
    /\ resolves' = [resolves EXCEPT ![nresolves + 1] =
                       IF by_mid[mid] # 0
                       THEN [pc |-> "done", mid |-> mid, obj |-> by_mid[mid]]
                       ELSE [pc |-> "select", mid |-> mid, obj |-> 0]]
    /\ UNCHANGED <<puppetDb, by_mid, strangers, byProfile>>
    /\ UNCHANGED <<profile, icon, shown>>
    /\ UNCHANGED NoProfileVars

\* puppet.py 152-160: the query returned; a row becomes a new Puppet object,
\* which is put in the cache and returned; without a row a new Puppet is
\* made and its insert awaited
ResolveSelect(n) ==
    /\ resolves[n].pc = "select"
    /\ IF resolves[n].mid \in puppetDb
       THEN /\ resolves' = [resolves EXCEPT ![n] = [@ EXCEPT !.pc = "done", !.obj = n]]
            /\ by_mid' = [by_mid EXCEPT ![resolves[n].mid] = n]
       ELSE /\ resolves' = [resolves EXCEPT ![n] = [@ EXCEPT !.pc = "insert", !.obj = n]]
            /\ UNCHANGED by_mid
    /\ UNCHANGED <<puppetDb, nresolves, strangers, byProfile>>
    /\ UNCHANGED <<profile, icon, shown>>
    /\ UNCHANGED NoProfileVars

\* puppet.py 159-162 with db/puppet.py 38-45 and the PRIMARY KEY of
\* db/upgrade.py 36-37: the insert adds the row and the Puppet is cached, or
\* it raises because the id has a row
ResolveInsert(n) ==
    /\ resolves[n].pc = "insert"
    /\ IF resolves[n].mid \in puppetDb
       THEN /\ resolves' = [resolves EXCEPT ![n] = [@ EXCEPT !.pc = "raised", !.obj = 0]]
            /\ UNCHANGED <<puppetDb, by_mid>>
       ELSE /\ resolves' = [resolves EXCEPT ![n] = [@ EXCEPT !.pc = "done"]]
            /\ puppetDb' = puppetDb \cup {resolves[n].mid}
            /\ by_mid' = [by_mid EXCEPT ![resolves[n].mid] = n]
    /\ UNCHANGED <<nresolves, strangers, byProfile>>
    /\ UNCHANGED <<profile, icon, shown>>
    /\ UNCHANGED NoProfileVars

IdentityNext ==
    \/ \E mid \in GroupMembers : ResolveBegin(mid)
    \/ \E n \in 1..MaxResolves : ResolveSelect(n)
    \/ \E n \in 1..MaxResolves : ResolveInsert(n)

IdentitySpec == Init /\ [][IdentityNext]_vars

(***************************************************************************)
(* Conversation objects: Portal.get_by_chat_id with create=True (portal.py *)
(* 848-866), as user.py 165, 214 and 226 call it; one action per await.    *)
(***************************************************************************)

\* everything but the conversation objects
NoChatVars == <<rpcVars, loginVars, registryVars, matrixVars, receiptVars, mediaVars,
                mxid, create_room_lock, backfill_lock, dbMessages, sent, createCalls,
                remoteMax, tasks, ntasks, insertRejected, profile, icon, shown, identityVars,
                passVars>>

\* portal.py 850-855: the call starts; a registered Portal is returned,
\* otherwise the portal table is queried
GetBegin(c) ==
    /\ ngets < MaxGets
    /\ ngets' = ngets + 1
    /\ gets' = [gets EXCEPT ![ngets + 1] =
                   IF by_chat_id[c] # 0
                   THEN [pc |-> "done", chat |-> c, obj |-> by_chat_id[c]]
                   ELSE [pc |-> "select", chat |-> c, obj |-> 0]]
    /\ UNCHANGED <<portalDb, by_chat_id>>
    /\ UNCHANGED NoChatVars

\* portal.py 855-863 with postinit (805-806): the query returned; a row
\* becomes a new Portal object, which postinit registers and which is
\* returned; without a row a new Portal is made and its insert awaited
GetSelect(n) ==
    /\ gets[n].pc = "select"
    /\ IF gets[n].chat \in portalDb
       THEN /\ gets' = [gets EXCEPT ![n] = [@ EXCEPT !.pc = "done", !.obj = n]]
            /\ by_chat_id' = [by_chat_id EXCEPT ![gets[n].chat] = n]
       ELSE /\ gets' = [gets EXCEPT ![n] = [@ EXCEPT !.pc = "insert", !.obj = n]]
            /\ UNCHANGED by_chat_id
    /\ UNCHANGED <<portalDb, ngets>>
    /\ UNCHANGED NoChatVars

\* portal.py 862-864 with db/portal.py 38-43 and the PRIMARY KEY of
\* db/upgrade.py 25-26: the insert adds the row and postinit registers the
\* Portal, or the insert raises because the chat has a row
GetInsert(n) ==
    /\ gets[n].pc = "insert"
    /\ IF gets[n].chat \in portalDb
       THEN /\ gets' = [gets EXCEPT ![n] = [@ EXCEPT !.pc = "raised", !.obj = 0]]
            /\ UNCHANGED <<portalDb, by_chat_id>>
       ELSE /\ gets' = [gets EXCEPT ![n] = [@ EXCEPT !.pc = "done"]]
            /\ portalDb' = portalDb \cup {gets[n].chat}
            /\ by_chat_id' = [by_chat_id EXCEPT ![gets[n].chat] = n]
    /\ UNCHANGED ngets
    /\ UNCHANGED NoChatVars

\* The bridge is started again while no call is in progress: the registry
\* is empty (portal.py 59), the portal table is kept.
GetRestart ==
    /\ \A n \in 1..MaxGets : gets[n].pc \in {"idle", "done", "raised"}
    /\ \E c \in AllChats : by_chat_id[c] # 0
    /\ by_chat_id' = [c \in AllChats |-> 0]
    /\ gets' = [n \in 1..MaxGets |-> NoGet]
    /\ ngets' = 0
    /\ UNCHANGED portalDb
    /\ UNCHANGED NoChatVars

GetNext ==
    \/ \E c \in AllChats : GetBegin(c)
    \/ \E n \in 1..MaxGets : GetSelect(n)
    \/ \E n \in 1..MaxGets : GetInsert(n)
    \/ GetRestart

GetSpec == Init /\ [][GetNext]_vars

(***************************************************************************)
(* A backfill pass over a multi-user chat that has a room, whose remote    *)
(* history has one new message: an outgoing one with a receipt count       *)
(* (portal.py 624-666), as one action.                                     *)
(***************************************************************************)

\* portal.py 404: handle_remote_message accounts for the receipt count of
\* the message it handled
ReceiptOfMessage(handle_receipt, is_outgoing, receipt_count) ==
    handle_receipt /\ is_outgoing /\ receipt_count > 0

\* portal.py 414-453 for a multi-user chat: _handle_receipt on the message
\* table, the cached participants, the receipt table and the reactions of
\* the room; what it leaves of the last two, and the native receipts it sends
HandleReceiptOn(table, cached, rcpts, reacts, c, m, count) ==
    LET since == GetAllSince(table, c, ReceiptGetMaxMid(rcpts, c, count), m)
        kept == {x \in reacts :
                   ~\E r \in since : x.relates_to = r.mxid /\ x.mx_room = mxid[c]}
        full == IsFullyRead(cached, count)
    IN [reactions |-> IF full THEN kept
                      ELSE kept \cup {[mx_room |-> mxid[c], relates_to |-> r.mxid, num_read |-> count] :
                                         r \in {x \in since : x.is_outgoing}},
        natives |-> IF full THEN {w \in cached : ~IsOwn(w)} ELSE {},
        receipts |-> ReceiptUpsert(rcpts, m, c, count)]

\* portal.py 624-666: _backfill gets the history, whose one new message m is
\* outgoing and read by `count`; listed: the history's receipts name it too.
\* The message is handled without receipt (639, handle_receipt is is_direct),
\* the participants are synced (645), the message is handled again (650-653)
\* and the listed receipts are handled (656-666).
BackfillGroup(c, m, count, listed) ==
    /\ mxid[c] # 0
    /\ \A t \in Tasks : tasks[t].pc \in {"idle", "done"}
    /\ NoidMsgs(dbMessages, mxid[c]) = {}
    /\ m > GetMaxMid(dbMessages, mxid[c])
    /\ LET event == EventId(0, m, FALSE)
           rec == [mxid |-> event, mx_room |-> mxid[c], mid |-> m, chat_id |-> c,
                   is_outgoing |-> TRUE]
           seen == GetByMid(dbMessages, m)
           stored == IF seen THEN dbMessages ELSE InsertMessage(dbMessages, rec)
           cached == RemoteParticipants(c)
           first == ~seen /\ ReceiptOfMessage(IsDirect(c), TRUE, count)
           again == ~GetByMid(stored, m)
           second == again /\ ReceiptOfMessage(FALSE, TRUE, count)
           fresh == listed /\ m > ReceiptGetMaxMid(receipts, c, count) /\ GetByMid(stored, m)
           out == HandleReceiptOn(stored, cached, receipts, reactions, c, m, count)
       IN /\ dbMessages' = stored
          /\ sent' = [sent EXCEPT ![c][m] = @ + (IF seen THEN 0 ELSE 1) + (IF again THEN 1 ELSE 0)]
          /\ participants' = [participants EXCEPT ![c] = cached]
          /\ IF first \/ second \/ fresh
             THEN /\ receipts' = out.receipts
                  /\ reactions' = out.reactions
                  /\ rct' = [n |-> rct.n + 1, chat |-> c, mid |-> m, count |-> count,
                             natives |-> out.natives]
             ELSE UNCHANGED <<receipts, reactions, rct>>
    /\ remoteMax' = [remoteMax EXCEPT ![c] = IF m > @ THEN m ELSE @]
    /\ bfOut' = [n |-> bfOut.n + 1, chat |-> c, mid |-> m, count |-> count]
    /\ UNCHANGED <<mxid, create_room_lock, backfill_lock, createCalls, tasks, ntasks, insertRejected>>
    /\ UNCHANGED <<rpcVars, loginVars, registryVars, matrixVars, mediaVars>>
    /\ UNCHANGED <<profile, icon, shown, identityVars, chatVars, members, psync>>

\* A multi-user chat gets its room from a sync pass; then backfill passes
\* find outgoing messages that have been read, and receipt events arrive.
GroupBackfillNext ==
    \/ \E c \in GroupChats : ntasks = 0 /\ SpawnSync(c)
    \/ \E t \in Tasks : SyncLookup(t)
    \/ \E t \in Tasks : Prep(t)
    \/ \E t \in Tasks : CreateInfo(t)
    \/ \E t \in Tasks : Creating(t)
    \/ \E t \in Tasks : BackfillFetch(t)
    \/ \E t \in Tasks : BackfillMax(t)
    \/ \E t \in Tasks : BackfillTail(t)
    \/ \E c \in GroupChats, m \in Mids, count \in Counts, listed \in BOOLEAN :
          BackfillGroup(c, m, count, listed)
    \/ \E c \in GroupChats, m \in Mids, count \in Counts : HandleReceipt(c, m, count)

GroupBackfillSpec == Init /\ [][GroupBackfillNext]_vars

(***************************************************************************)
(* The participant sync of a multi-user Portal that has a room             *)
(* (portal.py 572-615), as one action.  Own puppets are kept out of the    *)
(* room (invite_own_puppet_to_pm is False, portal.py 58).                  *)
(***************************************************************************)

\* portal.py 594-599, 611-615: the puppets a participant set puts in the
\* room, which are all but the own puppets
MembersFor(observed) == {w \in observed : ~IsOwn(w)}

\* portal.py 572-615: _update_participants with the participant set the
\* remote side reports. A set equal to the cached one returns at once
\* (584-586). Otherwise the set is cached (587), the puppets of the set
\* join (594-599) and the puppets that are not in it leave (604-615); ok:
\* no join raises; reached: the puppets that joined before one raised.
UpdateParticipants(observed, reached, ok) ==
    /\ psync' = [tick |-> ~psync.tick, observed |-> observed,
                 short |-> (observed = members.last)]
    /\ IF observed = members.last
       THEN UNCHANGED members
       ELSE members' = [last |-> observed,
                        joined |-> IF ok THEN MembersFor(observed)
                                   ELSE members.joined \cup reached]
    /\ UNCHANGED bfOut
    /\ UNCHANGED <<rpcVars, loginVars, registryVars, matrixVars, receiptVars, mediaVars>>
    /\ UNCHANGED <<mxid, create_room_lock, backfill_lock, dbMessages, sent, createCalls,
                   remoteMax, tasks, ntasks, insertRejected>>
    /\ UNCHANGED <<profile, icon, shown, identityVars, chatVars>>

\* The participant sets the remote side reports include the bridge user; a
\* join that raises leaves at least one puppet of the set out of the room.
MemberNext ==
    \/ \E others \in SUBSET GroupMembers : UpdateParticipants(others \cup {Own}, {}, TRUE)
    \/ \E others \in SUBSET GroupMembers, reached \in SUBSET GroupMembers :
          /\ reached \subseteq others /\ reached # others
          /\ UpdateParticipants(others \cup {Own}, reached, FALSE)

MemberSpec == Init /\ [][MemberNext]_vars

(***************************************************************************)
(* Strangers: Puppet.get_by_profile (puppet.py 166-187) for a sender       *)
(* without an id, as one action.  "" is a sender without an avatar; "NULL" *)
(* is the avatar_path None of a Puppet.                                    *)
(***************************************************************************)

\* the synthetic ids randint can produce (db/stranger.py 80-82)
StrangerIds == {"s1", "s2", "s3"}

\* db/stranger.py 60-67: the rows with this name and avatar path
StrangerByProfile(table, name, path) ==
    {r \in table : r.name = name /\ r.avatar_path = path}

\* puppet.py 86-106 for a new Puppet: the avatar path update_info leaves in
\* it; without a client the avatar is not looked at (puppet.py 69-70)
PuppetAvatarPath(path, has_client) ==
    IF has_client /\ path # "" THEN path ELSE "NULL"

\* db/stranger.py 35-38 under db/upgrade.py 123-133: fake_mid is UNIQUE,
\* (name, avatar_path) is the primary key, and its columns are NOT NULL
StrangerInsertable(table, row) ==
    /\ row.avatar_path # "NULL"
    /\ \A r \in table : r.fake_mid # row.fake_mid
    /\ StrangerByProfile(table, row.name, row.avatar_path) = {}

\* puppet.py 166-187 with db/stranger.py 69-93. A matching row gives its id.
\* Otherwise a row marked available is taken, or an id is generated until no
\* stranger row has it (fake_mid below); a Puppet of that id is inserted,
\* updated from the profile, and the stranger row is inserted with the
\* Puppet's avatar path. ok: no insert raised.
ResolveByProfile(name, path, has_client) ==
    /\ UNCHANGED <<by_mid, resolves, nresolves>>
    /\ UNCHANGED <<profile, icon, shown>>
    /\ UNCHANGED NoProfileVars
    /\ LET found == StrangerByProfile(strangers, name, path)
           pool == {r \in strangers : r.available}
           candidates == IF pool # {} THEN {r.fake_mid : r \in pool}
                         ELSE StrangerIds \ {r.fake_mid : r \in strangers}
       IN IF found # {}
          THEN /\ byProfile' = [tick |-> ~byProfile.tick, name |-> name, path |-> path,
                                matched |-> TRUE, ok |-> TRUE,
                                mid |-> (CHOOSE r \in found : TRUE).fake_mid]
               /\ UNCHANGED <<puppetDb, strangers>>
          ELSE \E fake_mid \in candidates :
                  LET row == [fake_mid |-> fake_mid, name |-> name,
                              avatar_path |-> PuppetAvatarPath(path, has_client),
                              available |-> (pool # {})]
                      puppet_ok == fake_mid \notin puppetDb
                      ok == puppet_ok /\ StrangerInsertable(strangers, row)
                  IN /\ puppetDb' = puppetDb \cup {fake_mid}
                     /\ strangers' = IF ok THEN strangers \cup {row} ELSE strangers
                     /\ byProfile' = [tick |-> ~byProfile.tick, name |-> name, path |-> path,
                                      matched |-> FALSE, ok |-> ok, mid |-> fake_mid]

StrangerNext ==
    \E name \in {"n1", "n2"}, path \in {"", "a1", "a2"}, has_client \in BOOLEAN :
        ResolveByProfile(name, path, has_client)

StrangerSpec == Init /\ [][StrangerNext]_vars

\* The media handling alone.
MediaNext ==
    \/ \E key \in MediaKeys, deduplicate \in BOOLEAN : MediaCall(key, deduplicate)
    \/ \E n \in MediaCalls : MediaLookup(n)
    \/ \E n \in MediaCalls, ok \in BOOLEAN : MediaRead(n, ok)
    \/ \E n \in MediaCalls : MediaUpload(n)
    \/ \E n \in MediaCalls : MediaInsert(n)

MediaSpec == Init /\ [][MediaNext]_vars

\* The receipts of a multi-user chat: one sync makes its room, the bridge
\* user sends messages into it, and the remote side reports how many have
\* read them.
ReceiptNext ==
    \/ \E c \in GroupChats : ntasks = 0 /\ SpawnSync(c)
    \/ \E t \in Tasks : SyncLookup(t)
    \/ \E t \in Tasks : Prep(t)
    \/ \E t \in Tasks : CreateInfo(t)
    \/ \E t \in Tasks : Creating(t)
    \/ \E t \in Tasks : BackfillFetch(t)
    \/ \E t \in Tasks : BackfillMax(t)
    \/ \E t \in Tasks : BackfillTail(t)
    \/ \E c \in GroupChats : MatrixMessage(c, TRUE, TRUE, TRUE, FALSE, "text", FALSE)
    \/ \E message_id \in Mids : MatrixSendResult(message_id)
    \/ \E c \in GroupChats, m \in Mids, count \in Counts : HandleReceipt(c, m, count)
    \/ Restart

ReceiptSpec == Init /\ [][ReceiptNext]_vars

\* The platform messages of the room that one sync of the chat list makes.
MatrixNext ==
    \/ \E c \in Chats : ntasks = 0 /\ SpawnSync(c)
    \/ \E t \in Tasks : SyncLookup(t)
    \/ \E t \in Tasks : Prep(t)
    \/ \E t \in Tasks : CreateInfo(t)
    \/ \E t \in Tasks : Creating(t)
    \/ \E t \in Tasks : BackfillFetch(t)
    \/ \E t \in Tasks : BackfillMax(t)
    \/ \E t \in Tasks : BackfillTail(t)
    \/ \E c \in Chats, has_client, reachable, logged_in, echo, reports \in BOOLEAN, msgtype \in MsgTypes :
           MatrixMessage(c, has_client, reachable, logged_in, echo, msgtype, reports)
    \/ \E message_id \in Mids \cup {-1} : MatrixSendResult(message_id)
    \/ MatrixSendRaises

MatrixSpec == Init /\ [][MatrixNext]_vars

\* The events of a chat whose room the platform user may leave: messages and
\* receipts from the remote side, and the leave.
LifecycleNext ==
    \/ \E c \in Chats, m \in Mids : SpawnMessage(c, m)
    \/ \E c \in Chats, m \in Mids : SpawnReceipt(c, m)
    \/ \E c \in Chats : LeavePortal(c)
    \/ \E t \in Tasks : MessageLookup(t)
    \/ \E t \in Tasks : ReceiptLookup(t)
    \/ \E t \in Tasks : Prep(t)
    \/ \E t \in Tasks : LockWait(t)
    \/ \E t \in Tasks : CreateInfo(t)
    \/ \E t \in Tasks : Creating(t)
    \/ \E t \in Tasks : Update(t)
    \/ \E t \in Tasks : BackfillFetch(t)
    \/ \E t \in Tasks : BackfillMax(t)
    \/ \E t \in Tasks : HrmCheck(t)
    \/ \E t \in Tasks : HrmSend(t)
    \/ \E t \in Tasks : HrmInsert(t)
    \/ \E t \in Tasks : BackfillTail(t)
    \/ \E t \in Tasks : ReceiptCheck(t)
    \/ \E t \in Tasks : ReceiptApply(t)

LifecycleSpec == Init /\ [][LifecycleNext]_vars

\* The login attempts of a user while the remote side only answers the login
\* requests.
LoginNext ==
    \/ \E kind \in LoginKinds : StartLogin(kind)
    \/ \E a \in Logins, l \in BOOLEAN : LoginPrep(a, l)
    \/ \E a \in Logins : EmailBegin(a)
    \/ \E a \in Logins, l \in BOOLEAN : AutoStart(a, l)
    \/ \E a \in Logins, c \in BOOLEAN, n \in BOOLEAN : AutoCreds(a, c, n)
    \/ \E a \in Logins : Registered(a)
    \/ \E a \in Logins, ok \in BOOLEAN : LoginResponse(a, ok)
    \/ \E a \in Logins : GenWake(a)
    \/ \E a \in Logins : ItemDone(a)
    \/ \E a \in Logins : LoginSynced(a)
    \/ \E a \in Logins : WatcherCheck(a)
    \/ CancelCommand

LoginSpec == Init /\ [][LoginNext]_vars

\* One login attempt, with the login events of the remote side.
SequenceNext ==
    \/ \E kind \in LoginKinds : nlogins = 0 /\ StartLogin(kind)
    \/ \E a \in Logins, l \in BOOLEAN : LoginPrep(a, l)
    \/ \E a \in Logins : EmailBegin(a)
    \/ \E a \in Logins, l \in BOOLEAN : AutoStart(a, l)
    \/ \E a \in Logins, c \in BOOLEAN, n \in BOOLEAN : AutoCreds(a, c, n)
    \/ \E a \in Logins : Registered(a)
    \/ \E e \in LoginEventKinds : RemoteLoginEvent(e)
    \/ \E a \in Logins, ok \in BOOLEAN : LoginResponse(a, ok)
    \/ \E a \in Logins : GenWake(a)
    \/ \E a \in Logins : ItemDone(a)
    \/ \E a \in Logins : LoginSynced(a)
    \/ \E a \in Logins : WatcherCheck(a)
    \/ CancelCommand

SequenceSpec == Init /\ [][SequenceNext]_vars

(***************************************************************************)
(* Properties of a conversation.                                           *)
(***************************************************************************)

\* C2: whatever the deliveries (live events, backfill replays) and their
\* interleaving, the message table holds at most one record for each
\* (remote message id, chat id).
C2_OneRecordPerRemoteId ==
    \A r1, r2 \in dbMessages :
        (r1.mid = r2.mid /\ r1.chat_id = r2.chat_id) => r1 = r2

\* a second record of a remote id was offered to the table and refused
C2_Witness == insertRejected

\* C3: a remote message id delivered more than once, concurrent deliveries
\* included, has exactly one platform event sent for it.
C3_OneEventPerRemoteId ==
    \A c \in Chats, m \in Mids : sent[c][m] <= 1

\* task u is inside _backfill (or in create_room, before the initial backfill)
InBackfill(u) ==
    \/ tasks[u].pc \in {"creating", "bf_fetch", "bf_max", "bf_tail", "bf_clean"}
    \/ tasks[u].pc \in {"hrm_check", "hrm_send", "hrm_insert"} /\ ~tasks[u].live

\* C4: the handling of a live message or receipt of a conversation does not
\* start while another task is backfilling that conversation.
C4_LiveWaitsForBackfill ==
    [][\A t \in Tasks :
          (~tasks[t].live /\ tasks'[t].live) =>
              ~\E u \in Tasks \ {t} : tasks[u].chat = tasks[t].chat /\ InBackfill(u)]_vars

\* C5: when a live message is sent to the room while a backfill of the chat
\* is replaying messages, every message of the replay with a lower remote id
\* is already recorded.
C5_BackfillBeforeLive ==
    [][\A t \in Tasks :
          (tasks[t].live /\ tasks[t].pc = "hrm_send" /\ tasks'[t].pc = "hrm_insert") =>
              \A u \in Tasks :
                  (tasks[u].chat = tasks[t].chat /\ ~tasks[u].live
                   /\ tasks[u].pc \in {"hrm_check", "hrm_send", "hrm_insert"}) =>
                      \A i \in 1..Len(tasks[u].batch) :
                          tasks[u].batch[i] < Head(tasks[t].batch) =>
                              /\ sent[tasks[u].chat][tasks[u].batch[i]] >= 1
                              /\ \E r \in dbMessages : /\ r.mid = tasks[u].batch[i]
                                                       /\ r.chat_id = tasks[u].chat]_vars

\* C6: concurrent triggers of one chat (none of which found the existing
\* room unusable or was refused a room by create_room) call create_room at
\* most once and end with the same room.
C6_OneRoomPerChat ==
    (\A x \in Tasks : ~tasks[x].err /\ tasks[x].pc # "raised") =>
        \A c \in Chats :
            /\ createCalls[c] <= 1
            /\ \A t, u \in Tasks :
                   (/\ tasks[t].chat = c /\ tasks[u].chat = c
                    /\ tasks[t].pc = "done" /\ tasks[u].pc = "done"
                    /\ tasks[t].room # 0 /\ tasks[u].room # 0) =>
                       tasks[t].room = tasks[u].room

\* C17: when create_room returns no room id, the trigger that called it ends
\* there with the exception: in that step the conversation is left without a
\* room id, nothing is added to the by-room index, the backfill lock and the
\* creation lock are both free, and no message is replayed or stored; the
\* trigger takes no step afterwards.
C17_CreateFailureReleases ==
    [][\A t \in Tasks :
          /\ (tasks[t].pc = "creating" /\ tasks'[t].pc = "raised") =>
                LET c == tasks[t].chat IN
                /\ mxid'[c] = 0
                /\ by_mxid' = by_mxid
                /\ backfill_lock'[c] = FALSE
                /\ create_room_lock'[c] = 0
                /\ dbMessages' = dbMessages
                /\ sent' = sent
          /\ tasks[t].pc = "raised" => tasks'[t] = tasks[t]]_vars

\* A creation failed and a later trigger created the room.
C17_Witness ==
    \E t, u \in Tasks :
        /\ tasks[t].pc = "raised"
        /\ tasks[u].chat = tasks[t].chat
        /\ tasks[u].room # 0
        /\ mxid[tasks[t].chat] = tasks[u].room
        /\ tasks[u].room \in by_mxid
        /\ createCalls[tasks[t].chat] = 2

\* C18: a chat whose conversation was deleted has no conversation record and
\* no room afterwards, whatever messages and receipts of the chat arrive.
C18_DeletedStaysDeleted ==
    \A c \in deleted : c \notin portals /\ mxid[c] = 0

\* C19: a platform message whose sender is not logged in, or which is an
\* echo of the puppet, ends its handler in the step that receives it: no send
\* request is made, no message record is stored and no notice is posted,
\* then or later.
C19_IgnoredMessageHasNoEffect ==
    [][/\ (mxMsg'.event # mxMsg.event /\ (~mxMsg'.logged \/ mxMsg'.echo)) =>
            /\ mxMsg'.pc = "done"
            /\ remoteSends' = remoteSends
            /\ dbMessages' = dbMessages
            /\ notices' = notices
       /\ (mxMsg'.event = mxMsg.event /\ (~mxMsg.logged \/ mxMsg.echo)) =>
            /\ mxMsg' = mxMsg
            /\ remoteSends' = remoteSends
            /\ notices' = notices]_vars

\* After a message that was sent on, an echo of a logged-in sender was ignored.
C19_Witness ==
    /\ mxMsg.pc = "done"
    /\ mxMsg.event = 2
    /\ mxMsg.logged
    /\ mxMsg.echo
    /\ mxMsg.msgtype = "text"
    /\ remoteSends = 1

\* C20: a text message handled while the remote side cannot be reached ends
\* with a failure notice in the room and without a message record.
C20_DisconnectedSendIsNoticed ==
    (/\ mxMsg.pc = "done"
     /\ mxMsg.msgtype = "text"
     /\ mxMsg.client /\ ~mxMsg.reachable /\ ~mxMsg.echo /\ mxMsg.reports) =>
        (mxMsg.noticed /\ ~mxMsg.stored)

\* C21: a platform message that was forwarded to the remote side, with failure
\* reports enabled, ends without an exception and with exactly one of: its
\* record stored (and no notice), or a failure notice (and no record).
C21_ForwardedStoredOrNoticed ==
    (/\ mxMsg.pc \in {"done", "raised"}
     /\ mxMsg.logged /\ ~mxMsg.echo /\ mxMsg.msgtype \in {"text", "media"}
     /\ mxMsg.reports) =>
        /\ mxMsg.pc = "done"
        /\ mxMsg.stored # mxMsg.noticed

\* C16: once the room id of a conversation is set, no step replaces it by a
\* different room id (a step may only keep it, or empty it).
C16_RoomIdNeverReplaced ==
    [][\A c \in Chats :
          (mxid[c] # 0 /\ mxid'[c] # 0) => mxid'[c] = mxid[c]]_vars

(***************************************************************************)
(* Properties of the receipts of a multi-user chat, N == the number of its *)
(* participants other than the bridge user                                 *)
(***************************************************************************)

N == Cardinality(GroupMembers)

\* the step handles a receipt of a multi-user chat for a message on record
ReceiptStep ==
    /\ rct'.n # rct.n
    /\ rct'.chat \in GroupChats
    /\ \E r \in dbMessages : r.mid = rct'.mid

\* the "Read by" reactions that message record r carries in table
ReactionsOn(table, r) == {x \in table : x.relates_to = r.mxid /\ x.mx_room = r.mx_room}

\* C22: a receipt with a count of N or more makes every participant other
\* than the bridge user send a native receipt, and leaves no "Read by"
\* reaction on the receipted message or on an earlier message of the chat.
C22_FullCountMarksRead ==
    [][(ReceiptStep /\ rct'.count >= N) =>
          /\ rct'.natives = GroupMembers
          /\ \A r \in dbMessages :
                 (r.chat_id = rct'.chat /\ r.mid <= rct'.mid) => ReactionsOn(reactions', r) = {}]_vars

\* C23: with the participant cache filled, a receipt with a count below N
\* leaves exactly one reaction on each outgoing message up to the receipted
\* one, and never lowers the count a message shows.
C23_OneAnnotationNeverLower ==
    [][(/\ ReceiptStep /\ rct'.count < N
        /\ participants[rct'.chat] = RemoteParticipants(rct'.chat)) =>
          \A r \in dbMessages :
             (r.chat_id = rct'.chat /\ r.is_outgoing /\ r.mid <= rct'.mid) =>
                 /\ Cardinality(ReactionsOn(reactions', r)) = 1
                 /\ \A x \in ReactionsOn(reactions, r), y \in ReactionsOn(reactions', r) :
                        y.num_read >= x.num_read]_vars

\* C24: a receipt with a count below N makes no native receipt and puts a
\* reaction with its count on the receipted outgoing message, whatever the
\* cached participant set is.
C24_PartialCountAnnotates ==
    [][(ReceiptStep /\ rct'.count < N) =>
          /\ rct'.natives = {}
          /\ \A r \in dbMessages :
                 (r.chat_id = rct'.chat /\ r.is_outgoing /\ r.mid = rct'.mid) =>
                     \E x \in ReactionsOn(reactions', r) : x.num_read = rct'.count]_vars

\* C25: the message id stored for a (chat, count) never decreases.
C25_ReceiptIdNeverDecreases ==
    [][\A r \in receipts, q \in receipts' :
          (r.chat_id = q.chat_id /\ r.num_read = q.num_read) => q.mid >= r.mid]_vars

\* C26: the receipt table never holds an older message with a lower count
\* next to a newer message with a higher count.
C26_NoLowerCountOnOlder ==
    \A r, q \in receipts :
        r.chat_id = q.chat_id => ~(r.mid < q.mid /\ r.num_read < q.num_read)

(***************************************************************************)
(* Properties of the rows without a remote id                              *)
(***************************************************************************)

\* the rows of the message table that belong to a room
RowsOf(table, room) == {r \in table : r.mx_room = room}

\* C28: when handle_remote_message handles a message with a remote id for a
\* room that has a row without one, it goes on to resolve such a row, and
\* resolving it leaves a row with the message's remote id and event id in the
\* room and no more rows in the room than before.
C28_PlaceholderResolved ==
    [][\A t \in Tasks :
          LET c == tasks[t].chat
              m == Head(tasks[t].batch)
          IN /\ (/\ tasks[t].pc = "hrm_send" /\ tasks'[t] # tasks[t]
                 /\ m # 0 /\ NoidMsgs(dbMessages, mxid[c]) # {})
                => (tasks'[t].pc = "hrm_insert" /\ tasks'[t].noid # 0)
             /\ (/\ tasks[t].pc = "hrm_insert" /\ tasks'[t] # tasks[t]
                 /\ tasks[t].noid # 0)
                => /\ \E r \in RowsOf(dbMessages', mxid[c]) :
                          r.mid = m /\ r.mxid = tasks[t].event
                   /\ Cardinality(RowsOf(dbMessages', mxid[c]))
                          <= Cardinality(RowsOf(dbMessages, mxid[c]))]_vars

\* C29: when a backfill pass of a room ends, whether it replayed messages or
\* not, and when the handling of a platform message that was sent on ends,
\* the room has no row without a remote id.
C29_NoPlaceholderAfterPass ==
    [][/\ \A t \in Tasks :
              (tasks[t].pc \in {"bf_tail", "bf_clean"} /\ tasks'[t] # tasks[t])
              => NoidMsgs(dbMessages', mxid[tasks[t].chat]) = {}
       /\ (mxMsg.pc = "sending" /\ mxMsg'.pc = "done")
              => NoidMsgs(dbMessages', mxid[mxMsg.chat]) = {}]_vars

(***************************************************************************)
(* Properties of a failing backfill                                        *)
(***************************************************************************)

\* C30: when a step of a backfill raises, the task does not end with the
\* exception, its notification disabler and the backfill lock of the chat are
\* released, the creation lock is not left with the task, and the task goes
\* on with the event that triggered it as after a backfill that finished.
C30_BackfillFailureContained ==
    [][\A t \in Tasks :
          (tasks[t].failed = 0 /\ tasks'[t].failed # 0)
          => /\ tasks'[t].pc # "raised" /\ ~tasks'[t].err
             /\ ~tasks'[t].muted
             /\ ~backfill_lock'[tasks[t].chat]
             /\ create_room_lock'[tasks[t].chat] # t
             /\ tasks'[t].pc = (IF tasks[t].kind = "message" THEN "hrm_check" ELSE "done")
             /\ dbMessages' = dbMessages]_vars

\* A message task whose backfill raised inside the notification disabler has
\* recorded its own live message afterwards, and a task of another chat has
\* recorded a live message too.
C30_Witness ==
    \E t, u \in Tasks :
        /\ tasks[t].failed = 2 /\ tasks[t].pc = "done" /\ tasks[t].kind = "message"
        /\ \E r \in dbMessages : r.chat_id = tasks[t].chat /\ r.mxid = EventId(t, r.mid, TRUE)
        /\ tasks[u].chat # tasks[t].chat /\ tasks[u].pc = "done"
        /\ \E r \in dbMessages : r.chat_id = tasks[u].chat /\ r.mxid = EventId(u, r.mid, TRUE)

(***************************************************************************)
(* Properties of the profiles                                              *)
(***************************************************************************)

\* C31: an update that failed part-way is not taken as applied: whenever an
\* update with some name, avatar or icon would find nothing to do (the stored
\* name is marked set, the stored avatar path is marked set, the stored icon
\* path is the one given), the platform shows that name, avatar or icon.
C31_StoredMeansApplied ==
    /\ profile.name_set => shown.displayname = profile.name
    /\ profile.avatar_set => shown.avatar = profile.avatar_path
    /\ shown.room_avatar = icon.icon_path

(***************************************************************************)
(* Properties of the identities                                            *)
(***************************************************************************)

\* C32: two finished resolves of the same participant id have both returned,
\* without raising, the same Puppet object.
C32_OneIdentityPerId ==
    \A a, b \in 1..MaxResolves :
        (/\ a # b
         /\ resolves[a].mid = resolves[b].mid
         /\ resolves[a].pc \in {"done", "raised"}
         /\ resolves[b].pc \in {"done", "raised"})
        => /\ resolves[a].pc = "done" /\ resolves[b].pc = "done"
           /\ resolves[a].obj = resolves[b].obj

\* C33: a call of get_by_profile that finds no stranger row for the sender's
\* name and avatar path ends without an exception, and the id it assigned
\* belongs to no other profile afterwards.
C33_UnmatchedProfileGetsFreeId ==
    [][(byProfile'.tick # byProfile.tick /\ ~byProfile'.matched)
       => /\ byProfile'.ok
          /\ \A r \in strangers' :
                r.fake_mid = byProfile'.mid
                => (r.name = byProfile'.name /\ ~r.available)]_vars

(***************************************************************************)
(* Properties of the first message of a chat                               *)
(***************************************************************************)

\* C34: when the task of a message event that created the room of its chat
\* ends the handling of its live message (which follows the room creation
\* and the initial backfill), the message has exactly one record and exactly
\* one platform event.
C34_FirstMessageOnce ==
    [][\A t \in Tasks :
          LET c == tasks[t].chat
              m == tasks[t].mid
          IN (/\ tasks[t].kind = "message" /\ tasks[t].live /\ m # 0
              /\ tasks[t].pc \in {"hrm_check", "hrm_send", "hrm_insert"}
              /\ tasks'[t].pc = "done"
              /\ mxid[c] = RoomId(t))
             => /\ Cardinality({r \in dbMessages' : r.mid = m /\ r.chat_id = c}) = 1
                /\ sent'[c][m] = 1]_vars

(***************************************************************************)
(* Properties of the deduplicated media                                    *)
(***************************************************************************)

\* C27: two calls of _handle_remote_media for the same content key, both made
\* with deduplication and both with a successful download, upload the content
\* once and return the same reference without raising, whether they ran one
\* after the other or overlapped.
C27_SameKeyUploadedOnce ==
    \A a, b \in MediaCalls :
        (/\ a # b
         /\ mcalls[a].dedup /\ mcalls[b].dedup
         /\ mcalls[a].key = mcalls[b].key
         /\ mcalls[a].pc \in {"done", "raised"}
         /\ mcalls[b].pc \in {"done", "raised"})
        => /\ mcalls[a].pc = "done" /\ mcalls[b].pc = "done"
           /\ mcalls[a].mxc = mcalls[b].mxc
           /\ uploads = 1

(***************************************************************************)
(* Properties of the login.                                                *)
(***************************************************************************)

\* the login request of attempt a is out, unanswered, and was not cancelled
LoginInProgress(a) == logins[a].future = "pending" /\ ~logins[a].cleared

\* C11: at most one remote login operation of the user is in progress at any
\* time, whichever entry points (login-qr, login-email, auto-login) the
\* attempts came through.
C11_OneLoginInProgress ==
    \A a, b \in Logins : (LoginInProgress(a) /\ LoginInProgress(b)) => a = b

\* C12: when every login attempt has ended, however it ended, the
\* login-in-progress marker is clear.
C12_MarkerClearedAtEnd ==
    (\A a \in Logins : logins[a].pc \in {"idle", "done"}) => command_status = "none"

\* C13: the login sequence yields its steps in the order their events were
\* handled, and once it has yielded Success it yields no further step.
C13_YieldsInOrderEndsAfterSuccess ==
    [][\A a \in Logins :
          /\ (logins[a].pc \in {"wait", "item"} /\ logins'[a].pc \in {"wait", "item"}) =>
                 logins'[a].yielded \o SelectSeq(logins'[a].data, LAMBDA x : x # "end")
                     = logins'[a].handled
          /\ (\E i \in 1..Len(logins[a].yielded) : logins[a].yielded[i] = "login_success") =>
                 Len(logins'[a].yielded) <= Len(logins[a].yielded)]_vars

\* C14: cancel_login is sent at most once per login, and a login whose marker
\* was cleared externally while its request was pending, and whose watcher has
\* looked at the marker since, has had cancel_login sent by the time the
\* request completes.
C14_CancelReachesRemote ==
    \A a \in Logins :
        /\ logins[a].cancels <= 1
        /\ (logins[a].future = "done" /\ logins[a].cleared /\ logins[a].missed) =>
               logins[a].cancels = 1

(***************************************************************************)
(* Properties of the transport.                                            *)
(***************************************************************************)

\* C1: no broadcast id is dispatched to the handlers more than once: a
\* broadcast passes only with an id strictly below the watermark, which then
\* becomes that id.
C1_NoBroadcastDispatchedTwice ==
    \A b \in Bids : dispatchCount[b] <= 1

\* C7: in the step in which the reader of the current connection detects
\* end-of-stream, the transport becomes disconnected (reader and writer
\* cleared) and no caller of request() is left suspended on a pending request.
C7_EofDisconnectsAndFailsPending ==
    [][\A k \in 1..connCount :
          (k = connCount /\ stream[k] = "open" /\ stream'[k] = "closed")
              => (~reader' /\ ~writer' /\ awaiting' = {})]_vars

\* C15: a received record that cannot be decoded or parsed, or that lacks
\* "id" or "command", leaves the connection open (reader, writer, stream, and
\* the read loop still running) and leaves the watermark, the pending
\* requests and their callers, the event tasks and the sequential queue as
\* they were, so that the frames after it are read by the same loop.
C15_InvalidRecordDropped ==
    [][(arrived' = arrived + 1 /\ lastFrame'.kind = "invalid") =>
          /\ reader' = reader /\ writer' = writer /\ stream' = stream
          /\ min_broadcast_id' = min_broadcast_id
          /\ response_waiters' = response_waiters /\ awaiting' = awaiting
          /\ command_queue' = command_queue /\ evTasks' = evTasks /\ cmdLoop' = cmdLoop
          /\ logins' = logins
          /\ reader => readTask'[connCount] = readTask[connCount]]_vars

\* JSON that is not an object was read while a request is pending, and the
\* read loop of the connection is still running
C15_Witness ==
    /\ lastFrame.kind = "invalid" /\ lastFrame.cmd = "non_object"
    /\ reader /\ readTask[connCount] = "running"
    /\ awaiting # {}

\* C8: request ids are handed out in strictly increasing order and never
\* reused; a frame with a request id changes no waiter but the one with that
\* id, completes that one if it is pending ("response": result, "error":
\* exception) and releases its caller; no frame adds or removes a waiter.
C8_RequestIdsAndResponses ==
    [][/\ \A i, j \in 1..Len(issued') : i < j => issued'[i] < issued'[j]
       /\ arrived' = arrived + 1 =>
            LET f == lastFrame' IN
            /\ DOMAIN response_waiters' = DOMAIN response_waiters
            /\ \A i \in DOMAIN response_waiters :
                   (f.kind # "response" \/ i # f.id)
                       => response_waiters'[i] = response_waiters[i]
            /\ ( /\ f.kind = "response"
                 /\ f.id \in DOMAIN response_waiters
                 /\ response_waiters[f.id] = "pending"
                 /\ f.cmd \in {"response", "error"} )
               => /\ response_waiters'[f.id] =
                        (IF f.cmd = "response" THEN "result" ELSE "exception")
                  /\ f.id \notin awaiting']_vars

\* C8 witness: two requests were in flight and the later one was answered
\* first, while the caller of the earlier one is still suspended.
C8_Witness ==
    \E i, j \in DOMAIN response_waiters :
        /\ i < j
        /\ i \in awaiting
        /\ response_waiters[i] = "pending"
        /\ response_waiters[j] = "result"

\* C9: the handlers of two different sequential broadcasts never run at the
\* same time, and sequential broadcasts start in arrival order.
C9_SequentialOneAtATime ==
    /\ \A c, d \in 1..connCount :
          (cmdLoop[c] # 0 /\ cmdLoop[d] # 0) => cmdLoop[c] = cmdLoop[d]
    /\ \A i, j \in 1..Len(seqStarted) : i < j => seqStarted[i] < seqStarted[j]

\* C10: once the transport has connected and is disconnected again, no step
\* opens another connection or starts another read loop or command loop.
C10_NoReconnect ==
    [][(connCount >= 1 /\ ~writer)
          => /\ connCount' = connCount
             /\ Len(readTask') = Len(readTask)
             /\ Len(cmdLoop') = Len(cmdLoop)]_vars

\* C35: a broadcast whose id is strictly lower than the id of every broadcast
\* received before it (fresh: below the lowest id read until then) is
\* dispatched to its handlers in the step that checks it against the
\* watermark, whether it runs as a task of its own or waits in the queue of
\* the command loop.
C35_FreshBroadcastDispatched ==
    [][/\ \A t \in evTasks :
             (t.st = "new" /\ t.fresh /\ t \notin evTasks')
                 => dispatchCount'[t.id] = dispatchCount[t.id] + 1
       /\ (command_queue # <<>> /\ command_queue' = Tail(command_queue)
             /\ Head(command_queue).fresh)
             => dispatchCount'[Head(command_queue).id] =
                    dispatchCount[Head(command_queue).id] + 1]_vars

\* C36: one transport never has more than one open connection, more than one
\* running reader task or more than one consumer of the sequential queue,
\* also when connect() is called again before an earlier call has connected.
C36_OneConnectionReaderConsumer ==
    /\ Cardinality({k \in 1..connCount : stream[k] = "open"}) <= 1
    /\ Cardinality({k \in 1..connCount : readTask[k] = "running"}) <= 1
    /\ Len(cmdLoop) <= 1

(***************************************************************************)
(* Properties of remote ids across chats.                                  *)
(***************************************************************************)

\* C37: an inbound message is dropped as a duplicate only if a record with
\* its remote id exists for its own chat, and a receipt has an effect (native
\* receipts, reactions, the receipt row) only if the message it names is
\* recorded for the receipt's own chat.
C37_DuplicateWithinChat ==
    [][/\ \A t \in Tasks :
             (tasks[t].pc = "hrm_check" /\ tasks'[t] # tasks[t] /\ tasks'[t].pc # "hrm_send")
                 => \E r \in dbMessages :
                        r.mid = Head(tasks[t].batch) /\ r.chat_id = tasks[t].chat
       /\ (rct'.n = rct.n + 1
             /\ (receipts' # receipts \/ reactions' # reactions \/ rct'.natives # {}))
             => \E r \in dbMessages : r.mid = rct'.mid /\ r.chat_id = rct'.chat]_vars

(***************************************************************************)
(* Properties of the conversation objects.                                 *)
(***************************************************************************)

\* C38: two calls for the same chat that have returned or raised have both
\* returned, and returned the same Portal object: no call fails on the
\* insert, and no second object is made for a chat that has one.
C38_OnePortalPerChat ==
    \A a, b \in 1..MaxGets :
        (a # b /\ gets[a].chat = gets[b].chat
               /\ gets[a].pc \in {"done", "raised"} /\ gets[b].pc \in {"done", "raised"})
            => (gets[a].pc = "done" /\ gets[b].pc = "done" /\ gets[a].obj = gets[b].obj)

(***************************************************************************)
(* Properties of a backfill pass over a multi-user chat.                   *)
(***************************************************************************)

\* C39: a backfill of a multi-user chat that replays an outgoing message
\* with a receipt count applies the receipt to it, with the participants
\* the pass has just synced: the receipt row of the count names the message,
\* a count that makes it fully read brings a native receipt from every
\* participant other than the bridge user, and any other count a "Read by"
\* reaction on the message.
C39_BackfilledReceiptApplied ==
    [][bfOut' # bfOut =>
          LET c == bfOut'.chat
              m == bfOut'.mid
              k == bfOut'.count
          IN /\ \E r \in receipts' : r.chat_id = c /\ r.num_read = k /\ r.mid = m
             /\ rct'.n = rct.n + 1 /\ rct'.chat = c /\ rct'.mid = m
             /\ IF IsFullyRead(participants'[c], k)
                THEN rct'.natives = {w \in participants'[c] : ~IsOwn(w)}
                ELSE \E r \in dbMessages' :
                        /\ r.mid = m /\ r.chat_id = c
                        /\ \E x \in ReactionsOn(reactions', r) : x.num_read = k]_vars

(***************************************************************************)
(* Properties of the participant sync.                                     *)
(***************************************************************************)

\* C40: a participant sync returns without joins and leaves, because the
\* observed set equals the cached one, only when the puppets in the room are
\* those of that set: a sync that failed part-way is tried again.
C40_ShortCircuitOnlyWhenApplied ==
    [][(psync' # psync /\ psync'.short)
          => members'.joined = MembersFor(psync'.observed)]_vars

====
